---- MODULE Spec2Model ----
(***************************************************************************)
(* ZipAndHash (package zah): the single-instance lock file, main() that    *)
(* wraps the pipeline in it, and the pipeline run().                       *)
(*                                                                         *)
(* Three layers share this module:                                         *)
(*   - SingleInstance (single_instance.py): acquire()/release() as the     *)
(*     sequence of system calls they make, interleaved between instances;  *)
(*   - main() (main.py): one SingleInstance per process around init()/run();*)
(*   - run() (main.py): the pipeline over a small file system.             *)
(***************************************************************************)
EXTENDS Integers, Sequences, FiniteSets, TLC

\* ------------------------------------------------------------------ bounds
\* number of SingleInstance objects (and of processes)
NInst == 2
\* largest value of the retry limit tried in the interleaving specifications
MaxLimit == 2

\* ------------------------------------------------------- program constants
MAX_MINUTES_WAITING == 5
script_name == "zipandhash"

\* The loop limit of acquire(): self.__MAX_MINUTES_WAITING * 60 * 10
WaitLimit(minutes) == minutes * 60 * 10

Inst == 1..NInst
Procs == 1..NInst

\* Optional[int]: None is the empty tuple, an int n is <<n>>
None == << >>
Some(n) == << n >>

\* Working directories a process may be started in
Cwds == {"/w1", "/w2"}
\* The source directory (absolute) the processes are started on: the same
\* data for all, the case the lock is there for
SrcArgs == {"/data/src"}

\* Path(lockfile) opened by a process whose working directory is cwd:
\* a relative name resolves against cwd
Resolve(dir, name) == << dir, name >>
LockName == script_name \o ".lock"
LockPaths == { Resolve(d, LockName) : d \in Cwds }

\* The descriptors a process has open when it starts: the three standard
\* streams, or fewer when the parent closed some (a daemon or scheduler that
\* starts the tool with stdin closed)
StdFdSets == { {0, 1, 2}, {1, 2} }

VARIABLES
    \* ---- SingleInstance
    lockfile,   \* lockfile[i]: the absolute path instance i opens
    fd,         \* fd[i]: self.fd
    pc,         \* pc[i]: position of instance i inside acquire()/release()
    loop_i,     \* loop_i[i]: the local i of acquire()
    limit,      \* value of __MAX_MINUTES_WAITING * 60 * 10
    procOf,     \* procOf[i]: the process instance i lives in
    openFds,    \* openFds[p]: descriptors open in process p
    markers,    \* set of lock paths at which a file exists
    content,    \* content[path]: pid written in the file (0: nothing written)
    \* ---- history of the calls (not read by the program)
    held,       \* held[i]: acquire() has returned and release() not yet called
    wasHeld,    \* wasHeld[i]: held[i] when the current release() was called
    attempts,   \* attempts[i]: os.open calls of the current acquire()
    sleeps,     \* sleeps[i]: sleep calls of the current acquire()
    handoff,    \* handoff[i]: a holder's release() returned while i was waiting
    relCount,   \* relCount[i]: release() calls since the last acquire() that
                \* returned (2: two or more), -1 before the first one returns
    \* ---- main()
    mpc,        \* mpc[p]: position of process p in main()
    log,        \* log[p]: the module logger is set
    exc,        \* exc[p]: the exception propagating in main(), or "none"
    errlog,     \* errlog[p]: main() has called log.error(f"{e}")
    thrown,     \* thrown[p]: what init() or run() raised in p, or "none"
                \* (history, not read by the program)
    cwd,        \* cwd[p]: working directory of process p
    srcArg,     \* srcArg[p]: the src argument of process p
    \* ---- run()
    config,     \* the Config built by init()
    fs,         \* the file system: existing path -> node
    listing,    \* the order in which directories list their entries
    rpc,        \* position in run()
    loc,        \* the local variables of run()
    error,      \* the exception run() raised, or ""
    \* ---- history of the run (not read by the program)
    events,     \* what run() did so far, as <<kind, argument>> pairs
    fs0         \* the file system when run() started

lockVars == << lockfile, fd, pc, loop_i, limit, procOf, openFds, markers, content >>
histVars == << held, wasHeld, attempts, sleeps, handoff, relCount >>
mainVars == << mpc, log, exc, errlog, thrown, cwd, srcArg >>
runVars == << config, fs, listing, rpc, loc, error, events, fs0 >>
vars == << lockVars, histVars, mainVars, runVars >>

\* ------------------------------------------------------------ os primitives

\* os.open(): the lowest descriptor not open in the process
LowestFree(open) == CHOOSE n \in 0..Cardinality(open) :
                        n \notin open /\ \A m \in 0..(n - 1) : m \in open

\* os.open(path, O_CREAT | O_EXCL | O_RDWR) succeeds iff no file is at path
OpenWithoutExcl(path) == TRUE
OpenExclOk(path) == path \notin markers

\* `if self.fd:` - None and 0 are both false
Truthy(f) == f # None /\ f[1] # 0

\* i >= self.__MAX_MINUTES_WAITING * 60 * 10
BudgetExhaustedStrict(i) == loop_i[i] > limit
BudgetExhausted(i) == loop_i[i] >= limit

InAcquire(i) == pc[i] \in {"a_open", "a_write", "a_sleep"}
InRelease(i) == pc[i] \in {"r_test", "r_clear", "r_unlink"}

\* Instances other than i that are waiting in acquire() on the same path
WaitersOn(i) == { j \in Inst \ {i} : lockfile[j] = lockfile[i]
                                      /\ pc[j] \in {"a_open", "a_sleep"} }

\* ---------------------------------------------------- SingleInstance.acquire

\* acquire() is entered: i = 0
BeginAcquire(i) ==
    /\ pc[i] = "idle"
    /\ pc' = [pc EXCEPT ![i] = "a_open"]
    /\ loop_i' = [loop_i EXCEPT ![i] = 0]
    /\ attempts' = [attempts EXCEPT ![i] = 0]
    /\ sleeps' = [sleeps EXCEPT ![i] = 0]
    /\ handoff' = [handoff EXCEPT ![i] = FALSE]
    /\ UNCHANGED << lockfile, fd, limit, procOf, openFds, markers, content,
                    held, wasHeld, relCount >>

\* self.fd = os.open(...) succeeds: the file is created, empty
AcquireOpenOk(i) ==
    /\ pc[i] = "a_open"
    /\ OpenExclOk(lockfile[i])
    /\ LET p == procOf[i]
           n == LowestFree(openFds[p])
       IN /\ fd' = [fd EXCEPT ![i] = Some(n)]
          /\ openFds' = [openFds EXCEPT ![p] = @ \cup {n}]
    /\ markers' = markers \cup {lockfile[i]}
    /\ content' = [content EXCEPT ![lockfile[i]] = 0]
    /\ pc' = [pc EXCEPT ![i] = "a_write"]
    /\ attempts' = [attempts EXCEPT ![i] = @ + 1]
    /\ handoff' = [j \in Inst |->
                     IF lockfile[j] = lockfile[i] THEN FALSE ELSE handoff[j]]
    /\ UNCHANGED << lockfile, loop_i, limit, procOf, held, wasHeld, sleeps,
                    relCount, mainVars, runVars >>

\* os.write(self.fd, pid); i = -1; the loop ends and acquire() returns
AcquireWrite(i) ==
    /\ pc[i] = "a_write"
    /\ content' = [content EXCEPT ![lockfile[i]] = procOf[i]]
    /\ loop_i' = [loop_i EXCEPT ![i] = -1]
    /\ pc' = [pc EXCEPT ![i] = "idle"]
    /\ held' = [held EXCEPT ![i] = TRUE]
    /\ relCount' = [relCount EXCEPT ![i] = 0]
    /\ UNCHANGED << lockfile, fd, limit, procOf, openFds, markers, wasHeld,
                    attempts, sleeps, handoff, mainVars, runVars >>

\* os.open raises FileExistsError and the budget is not exhausted
AcquireOpenExists(i) ==
    /\ pc[i] = "a_open"
    /\ ~OpenExclOk(lockfile[i])
    /\ ~BudgetExhausted(i)
    /\ pc' = [pc EXCEPT ![i] = "a_sleep"]
    /\ attempts' = [attempts EXCEPT ![i] = @ + 1]
    /\ UNCHANGED << lockfile, fd, loop_i, limit, procOf, openFds, markers,
                    content, held, wasHeld, sleeps, handoff, relCount, mainVars,
                    runVars >>

\* os.open raises FileExistsError with i >= limit: sys.exit(1)
AcquireGiveUp(i) ==
    /\ pc[i] = "a_open"
    /\ ~OpenExclOk(lockfile[i])
    /\ BudgetExhausted(i)
    /\ pc' = [pc EXCEPT ![i] = "exited"]
    /\ attempts' = [attempts EXCEPT ![i] = @ + 1]
    /\ UNCHANGED << lockfile, fd, loop_i, limit, procOf, openFds, markers,
                    content, held, wasHeld, sleeps, handoff, relCount, mainVars,
                    runVars >>

\* sleep(0.1); i += 1
AcquireSleep(i) ==
    /\ pc[i] = "a_sleep"
    /\ loop_i' = [loop_i EXCEPT ![i] = @ + 1]
    /\ sleeps' = [sleeps EXCEPT ![i] = @ + 1]
    /\ pc' = [pc EXCEPT ![i] = "a_open"]
    /\ UNCHANGED << lockfile, fd, limit, procOf, openFds, markers, content,
                    held, wasHeld, attempts, handoff, relCount, mainVars,
                    runVars >>

\* ---------------------------------------------------- SingleInstance.release

\* release() is entered
BeginRelease(i) ==
    /\ pc[i] = "idle"
    /\ pc' = [pc EXCEPT ![i] = "r_test"]
    /\ wasHeld' = [wasHeld EXCEPT ![i] = held[i]]
    /\ held' = [held EXCEPT ![i] = FALSE]
    /\ relCount' = [relCount EXCEPT ![i] = IF @ = -1 THEN -1
                                           ELSE IF @ >= 1 THEN 2 ELSE 1]
    /\ UNCHANGED << lockfile, fd, loop_i, limit, procOf, openFds, markers,
                    content, attempts, sleeps, handoff >>

\* release() returns: a waiter on the same path sees a holder's release
Returned(i) == [j \in Inst |-> IF wasHeld[i] /\ j \in WaitersOn(i)
                               THEN TRUE ELSE handoff[j]]

\* Where release() goes when `if self.fd:` is false: the close, the
\* assignment and the unlink are all inside the if
AfterSkipUnlinks(i) == "r_unlink"
AfterSkip(i) == "idle"

\* The value release() stores in self.fd after os.close
AfterCloseKeepsFd(i) == fd[i]
AfterClose(i) == None

\* `if self.fd:` is false: release() returns at once
ReleaseSkip(i) ==
    /\ pc[i] = "r_test"
    /\ ~Truthy(fd[i])
    /\ pc' = [pc EXCEPT ![i] = AfterSkip(i)]
    /\ handoff' = IF AfterSkip(i) = "idle" THEN Returned(i) ELSE handoff
    /\ UNCHANGED << lockfile, fd, loop_i, limit, procOf, openFds, markers,
                    content, held, wasHeld, attempts, sleeps, relCount, mainVars,
                    runVars >>

\* `if self.fd:` is true: os.close(self.fd)
ReleaseClose(i) ==
    /\ pc[i] = "r_test"
    /\ Truthy(fd[i])
    /\ openFds' = [openFds EXCEPT ![procOf[i]] = @ \ {fd[i][1]}]
    /\ pc' = [pc EXCEPT ![i] = "r_clear"]
    /\ UNCHANGED << lockfile, fd, loop_i, limit, procOf, markers, content,
                    histVars, mainVars, runVars >>

\* self.fd = None
ReleaseClear(i) ==
    /\ pc[i] = "r_clear"
    /\ fd' = [fd EXCEPT ![i] = AfterClose(i)]
    /\ pc' = [pc EXCEPT ![i] = "r_unlink"]
    /\ UNCHANGED << lockfile, loop_i, limit, procOf, openFds, markers, content,
                    histVars, mainVars, runVars >>

\* self.lockfile.unlink(missing_ok=True); release() returns
ReleaseUnlink(i) ==
    /\ pc[i] = "r_unlink"
    /\ markers' = markers \ {lockfile[i]}
    /\ pc' = [pc EXCEPT ![i] = "idle"]
    /\ handoff' = Returned(i)
    /\ UNCHANGED << lockfile, fd, loop_i, limit, procOf, openFds, content,
                    held, wasHeld, attempts, sleeps, relCount, mainVars,
                    runVars >>

\* The steps inside acquire() and release(), common to every specification
LockStep(i) ==
    \/ AcquireOpenOk(i)
    \/ AcquireWrite(i)
    \/ AcquireOpenExists(i)
    \/ AcquireGiveUp(i)
    \/ AcquireSleep(i)
    \/ ReleaseSkip(i)
    \/ ReleaseClose(i)
    \/ ReleaseClear(i)
    \/ ReleaseUnlink(i)

\* ------------------------------------------- SingleInstance used directly

\* A caller calls acquire() on an idle instance
CallAcquire(i) == BeginAcquire(i) /\ UNCHANGED << mainVars, runVars >>

\* A caller calls release() on an idle instance
CallRelease(i) == BeginRelease(i) /\ UNCHANGED << mainVars, runVars >>

\* __init__: fd = None; nothing has been called
InitObjects ==
    /\ fd = [i \in Inst |-> None]
    /\ pc = [i \in Inst |-> "idle"]
    /\ loop_i = [i \in Inst |-> 0]
    /\ held = [i \in Inst |-> FALSE]
    /\ wasHeld = [i \in Inst |-> FALSE]
    /\ attempts = [i \in Inst |-> 0]
    /\ sleeps = [i \in Inst |-> 0]
    /\ handoff = [i \in Inst |-> FALSE]
    /\ relCount = [i \in Inst |-> -1]

NoMain ==
    /\ mpc = [p \in Procs |-> "none"]
    /\ log = [p \in Procs |-> FALSE]
    /\ exc = [p \in Procs |-> "none"]
    /\ errlog = [p \in Procs |-> FALSE]
    /\ thrown = [p \in Procs |-> "none"]
    /\ cwd = [p \in Procs |-> "/w1"]
    /\ srcArg = [p \in Procs |-> "/data/src"]

\* run() is not part of the specification
NoRun ==
    /\ config = << >>
    /\ fs = << >>
    /\ listing = << >>
    /\ rpc = "none"
    /\ loc = << >>
    /\ error = ""
    /\ events = << >>
    /\ fs0 = << >>

\* procOf up to renaming of the processes: instance 1 lives in process 1 and
\* every other instance in a process already used or in the next unused one
Canonical(f) == \A i \in Inst :
                    f[i] = 1 \/ \E j \in 1..(i - 1) : f[j] >= f[i] - 1

\* Instances constructed on one lock path, in the same or in different
\* processes, on a file system without marker files
InitLock ==
    /\ InitObjects
    /\ NoMain
    /\ NoRun
    /\ lockfile = [i \in Inst |-> Resolve("/w1", LockName)]
    /\ procOf \in { f \in [Inst -> Procs] : Canonical(f) }
    /\ openFds \in { o \in [Procs -> StdFdSets] :
                       \A p \in Procs : (\A i \in Inst : procOf[i] # p)
                                            => o[p] = {0, 1, 2} }
    /\ limit = MaxLimit
    /\ markers = {}
    /\ content = [q \in LockPaths |-> 0]

NextLock == \E i \in Inst : CallAcquire(i) \/ CallRelease(i) \/ LockStep(i)

SpecLock == InitLock /\ [][NextLock]_vars

\* ------------------------------------------------------------------- main()
\* Process p runs main() once, with the instance p constructed on the
\* relative name f"{script_name}.lock".

\* __enter__ has returned: the with-body may start
EnterSkipsAcquire(p) == TRUE
EnterReturned(p) == pc[p] = "idle" /\ held[p]

\* with SingleInstance(...): __enter__ calls acquire()
MainWith(p) ==
    /\ mpc[p] = "start"
    /\ BeginAcquire(p)
    /\ mpc' = [mpc EXCEPT ![p] = "acquire"]
    /\ UNCHANGED << log, exc, errlog, thrown, cwd, srcArg, runVars >>

\* acquire() returned: the body of the with-statement is entered
MainEnterBody(p) ==
    /\ mpc[p] = "acquire"
    /\ EnterReturned(p)
    /\ mpc' = [mpc EXCEPT ![p] = "init"]
    /\ UNCHANGED << lockVars, histVars, log, exc, errlog, thrown, cwd, srcArg,
                    runVars >>

\* acquire() gave up: sys.exit(1) ends the process inside __enter__
MainTimeout(p) ==
    /\ mpc[p] = "acquire"
    /\ pc[p] = "exited"
    /\ mpc' = [mpc EXCEPT ![p] = "sysexit"]
    /\ exc' = [exc EXCEPT ![p] = "SystemExit"]
    /\ UNCHANGED << lockVars, histVars, log, errlog, thrown, cwd, srcArg,
                    runVars >>

\* What init(sys.argv[1:]) may do: return with the logger set, raise an
\* Exception before or after the logger is set, or leave by SystemExit
\* (argparse rejecting the arguments, before the logger is set)
InitOutcomes == {"ok", "error_before_log", "error_after_log", "SystemExit"}

\* init(sys.argv[1:])
MainInit(p) ==
    /\ mpc[p] = "init"
    /\ \E r \in InitOutcomes :
        /\ log' = [log EXCEPT ![p] = r \in {"ok", "error_after_log"}]
        /\ mpc' = [mpc EXCEPT ![p] =
                     CASE r = "ok" -> "run"
                       [] r = "SystemExit" -> "exit"
                       [] OTHER -> "except"]
        /\ exc' = [exc EXCEPT ![p] =
                     CASE r = "ok" -> "none"
                       [] r = "SystemExit" -> "SystemExit"
                       [] OTHER -> "Exception"]
        /\ thrown' = [thrown EXCEPT ![p] = exc'[p]]
    /\ UNCHANGED << lockVars, histVars, errlog, cwd, srcArg, runVars >>

\* What run() may do: return, raise an Exception, or be interrupted
RunOutcomes == {"ok", "Exception", "KeyboardInterrupt"}

\* run()
MainRun(p) ==
    /\ mpc[p] = "run"
    /\ \E r \in RunOutcomes :
        /\ mpc' = [mpc EXCEPT ![p] = IF r = "Exception" THEN "except" ELSE "exit"]
        /\ exc' = [exc EXCEPT ![p] = IF r = "ok" THEN "none" ELSE r]
        /\ thrown' = [thrown EXCEPT ![p] = exc'[p]]
    /\ UNCHANGED << lockVars, histVars, log, errlog, cwd, srcArg, runVars >>

\* What a call of input() inside run() may do: return the line typed, or
\* raise at end of input or on an interrupt
InputOutcomes == {"typed", "EOFError", "KeyboardInterrupt"}

\* run() reaches one of its input() calls and blocks on the terminal
MainInput(p) ==
    /\ mpc[p] = "run"
    /\ mpc' = [mpc EXCEPT ![p] = "input"]
    /\ UNCHANGED << lockVars, histVars, log, exc, errlog, thrown, cwd, srcArg,
                    runVars >>

\* the prompt is answered: run() goes on, or input() raises
MainAnswer(p) ==
    /\ mpc[p] = "input"
    /\ \E r \in InputOutcomes :
        /\ mpc' = [mpc EXCEPT ![p] =
                     CASE r = "typed" -> "run"
                       [] r = "EOFError" -> "except"
                       [] OTHER -> "exit"]
        /\ exc' = [exc EXCEPT ![p] =
                     CASE r = "typed" -> "none"
                       [] r = "EOFError" -> "Exception"
                       [] OTHER -> r]
        /\ thrown' = [thrown EXCEPT ![p] = exc'[p]]
    /\ UNCHANGED << lockVars, histVars, log, errlog, cwd, srcArg, runVars >>

\* `if log:` in the handler of main()
Logs(p) == log[p]

\* except Exception as e: log.error if log else raise e
MainExcept(p) ==
    /\ mpc[p] = "except"
    /\ exc' = [exc EXCEPT ![p] = IF Logs(p) THEN "none" ELSE "Exception"]
    /\ errlog' = [errlog EXCEPT ![p] = Logs(p)]
    /\ mpc' = [mpc EXCEPT ![p] = "exit"]
    /\ UNCHANGED << lockVars, histVars, log, thrown, cwd, srcArg, runVars >>

\* The with-block is left: __exit__ calls release()
MainExit(p) ==
    /\ mpc[p] = "exit"
    /\ BeginRelease(p)
    /\ mpc' = [mpc EXCEPT ![p] = "release"]
    /\ UNCHANGED << log, exc, errlog, thrown, cwd, srcArg, runVars >>

\* release() returned: main() returns, or the pending exception propagates
MainLeave(p) ==
    /\ mpc[p] = "release"
    /\ pc[p] = "idle"
    /\ mpc' = [mpc EXCEPT ![p] = IF exc[p] = "none" THEN "returned" ELSE "raised"]
    /\ UNCHANGED << lockVars, histVars, log, exc, errlog, thrown, cwd, srcArg,
                    runVars >>

\* main() has no return statement: a call that returns yields None
MainReturns == None

\* The entry point of the package calls sys.exit(main()): the exit status of
\* process p once it has ended. sys.exit(None) is status 0; sys.exit(1) of
\* acquire() is status 1; an exception that leaves main() ends the
\* interpreter with status 1, argparse's SystemExit with status 2 and a
\* KeyboardInterrupt with status 130.
ExitStatus(p) ==
    CASE mpc[p] = "sysexit" -> 1
      [] mpc[p] = "returned" -> IF MainReturns = None THEN 0 ELSE MainReturns[1]
      [] mpc[p] = "raised" /\ exc[p] = "SystemExit" -> 2
      [] mpc[p] = "raised" /\ exc[p] = "KeyboardInterrupt" -> 130
      [] OTHER -> 1

\* The process of p has ended
Ended(p) == mpc[p] \in {"sysexit", "returned", "raised"}

\* init() or run() or the handler of main() is executing in process p
InBody(p) == mpc[p] \in {"init", "run", "input", "except"}

\* The marker at p's lock path exists and was written by p
HoldsLock(p) == lockfile[p] \in markers /\ content[lockfile[p]] = p

\* Processes started on the source directory, process 1 in the first working
\* directory and the others in any
InitMain ==
    /\ InitObjects
    /\ NoRun
    /\ mpc = [p \in Procs |-> "start"]
    /\ log = [p \in Procs |-> FALSE]
    /\ exc = [p \in Procs |-> "none"]
    /\ errlog = [p \in Procs |-> FALSE]
    /\ thrown = [p \in Procs |-> "none"]
    /\ cwd \in { c \in [Procs -> Cwds] : c[1] = "/w1" }
    /\ srcArg \in [Procs -> SrcArgs]
    /\ lockfile = [p \in Procs |-> Resolve(cwd[p], LockName)]
    /\ procOf = [p \in Procs |-> p]
    /\ openFds \in [Procs -> StdFdSets]
    /\ limit = MaxLimit
    /\ markers = {}
    /\ content = [q \in LockPaths |-> 0]

NextMain == \E p \in Procs :
    \/ MainWith(p)
    \/ MainEnterBody(p)
    \/ MainTimeout(p)
    \/ MainInit(p)
    \/ MainRun(p)
    \/ MainInput(p)
    \/ MainAnswer(p)
    \/ MainExcept(p)
    \/ MainExit(p)
    \/ MainLeave(p)
    \/ LockStep(p)

SpecMain == InitMain /\ [][NextMain]_vars

\* ------------------------------------------------ acquire() on a stale marker

\* The pid of a process that is not running any more
DeadPid == NInst + 1

\* A marker file left by an earlier instance is at the lock path, and stays;
\* the retry limit is the one of the test (0 minutes) or the default
InitTimeout ==
    /\ InitObjects
    /\ NoMain
    /\ NoRun
    /\ lockfile = [i \in Inst |-> Resolve("/w1", LockName)]
    /\ procOf = [i \in Inst |-> i]
    /\ openFds = [p \in Procs |-> {0, 1, 2}]
    /\ limit \in { WaitLimit(0), WaitLimit(MAX_MINUTES_WAITING) }
    /\ markers = { Resolve("/w1", LockName) }
    /\ content = [q \in LockPaths |-> IF q \in markers THEN DeadPid ELSE 0]

\* One instance after the other calls acquire()
SeqCallAcquire(i) ==
    /\ \A j \in Inst : ~InAcquire(j)
    /\ CallAcquire(i)

NextTimeout == \E i \in Inst :
    SeqCallAcquire(i) \/ AcquireOpenExists(i) \/ AcquireGiveUp(i) \/ AcquireSleep(i)

\* The process keeps running: sleep() returns and the loop goes on
SpecTimeout == InitTimeout /\ [][NextTimeout]_vars /\ WF_vars(NextTimeout)

\* ----------------------------------------------------------- the file system
\* A file name is <<stem, suffix>> (Path.stem, Path.suffix), a path the
\* sequence of the names from the root, and the file system a function from
\* the existing paths to their nodes. File contents are strings.

NameOf(stem, suffix) == << stem, suffix >>
NameStr(n) == n[1] \o n[2]

SrcRoot == << NameOf("src", "") >>
DstRoot == << NameOf("dst", "") >>
CpyRoot == << NameOf("cpy", "") >>

DirNode == [kind |-> "dir", data |-> ""]
FileNode(d) == [kind |-> "file", data |-> d]
\* a symbolic link to a regular file outside the trees, whose content is d
LinkNode(d) == [kind |-> "link", data |-> d]

Last(p) == p[Len(p)]
Parent(p) == SubSeq(p, 1, Len(p) - 1)
IsPrefix(d, p) == Len(d) <= Len(p) /\ SubSeq(p, 1, Len(d)) = d
Prefixes(p) == { SubSeq(p, 1, k) : k \in 1..Len(p) }
\* the path p, which is under `from`, moved under `to`
Rebase(p, from, to) == to \o SubSeq(p, Len(from) + 1, Len(p))

\* Path.exists(), Path.is_dir(), Path.is_file() (links are followed)
Exists(f, p) == p \in DOMAIN f
IsDir(f, p) == p \in DOMAIN f /\ f[p].kind = "dir"
IsFile(f, p) == p \in DOMAIN f /\ f[p].kind \in {"file", "link"}

Children(f, d) == { p \in DOMAIN f : Len(p) = Len(d) + 1 /\ IsPrefix(d, p) }
Under(f, d) == { p \in DOMAIN f : Len(p) > Len(d) /\ IsPrefix(d, p) }

Put(f, p, node) == [q \in DOMAIN f \cup {p} |-> IF q = p THEN node ELSE f[q]]
Remove(f, gone) == [q \in DOMAIN f \ gone |-> f[q]]

\* Every name of the model, in the two orders in which a directory may list
\* its entries (the order is the file system's, not sorted by the program)
NameOrders == {
    << NameOf("A", ""), NameOf("A", ".v2"), NameOf("B", ""),
       NameOf("A", ".zip"), NameOf("B", ".zip"),
       NameOf("hashes", ".txt"), NameOf("run1", ""), NameOf("l", ""),
       NameOf("n", ""), NameOf("notes", ".md"), NameOf("old", ".bin"),
       NameOf("x", ".txt"), NameOf("y", ".bin"), NameOf("z", ".TXT") >>,
    << NameOf("z", ".TXT"), NameOf("y", ".bin"), NameOf("x", ".txt"),
       NameOf("old", ".bin"), NameOf("notes", ".md"), NameOf("n", ""),
       NameOf("l", ""), NameOf("run1", ""), NameOf("hashes", ".txt"),
       NameOf("B", ".zip"), NameOf("A", ".zip"), NameOf("B", ""),
       NameOf("A", ".v2"), NameOf("A", "") >> }

Rank(order, n) == CHOOSE k \in 1..Len(order) : order[k] = n

\* The paths of S as the sequence in which the directory lists them
RECURSIVE InOrder(_, _)
InOrder(order, S) ==
    IF S = {} THEN << >>
    ELSE LET m == CHOOSE x \in S :
                    \A y \in S : Rank(order, Last(x)) <= Rank(order, Last(y))
         IN << m >> \o InOrder(order, S \ {m})

\* Path.iterdir() / os.listdir() / os.scandir()
ListDir(order, f, d) == InOrder(order, Children(f, d))

\* Path.mkdir(parents=True, exist_ok=True): [fs, err]
MkdirP(f, p) ==
    IF \E q \in Prefixes(p) : q \in DOMAIN f /\ f[q].kind # "dir"
    THEN [fs |-> f,
          err |-> IF p \in DOMAIN f THEN "FileExistsError" ELSE "NotADirectoryError"]
    ELSE [fs |-> [q \in DOMAIN f \cup Prefixes(p) |->
                    IF q \in DOMAIN f THEN f[q] ELSE DirNode],
          err |-> ""]

\* ---------------------------------------------------------- extensions.py
\* The members of allowed_ext that the names of the model use
allowed_ext == {".txt", ".md", ".zip"}

\* str.lower() on the suffixes of the model
Lower(suffix) == IF suffix = ".TXT" THEN ".txt" ELSE suffix

\* `allowed_ext if config.fil_zip else None`: None is the empty set here,
\* which `not allowed_ext` treats alike
NoFilter == {}

\* ------------------------------------------------------ dir_operations.py

\* check_paths(src, dst, cpy): [fs, err]; cpy is None (the empty path) or a path
check_paths(f, src, dst, cpy) ==
    IF ~Exists(f, src) THEN [fs |-> f, err |-> "FileNotFoundError"]
    ELSE LET r1 == MkdirP(f, dst)
             r2 == IF cpy # None /\ r1.err = "" THEN MkdirP(r1.fs, cpy) ELSE r1
         IN IF r2.err # "" THEN r2
            ELSE IF ~IsDir(r2.fs, src) \/ ~IsDir(r2.fs, dst)
                    \/ (cpy # None /\ ~IsDir(r2.fs, cpy))
                 THEN [fs |-> r2.fs, err |-> "NotADirectoryError"]
                 ELSE r2

\* get_subdirectories(path_dir): [d for d in path_dir.iterdir() if d.is_dir()]
get_subdirectories(order, f, d) ==
    SelectSeq(ListDir(order, f, d), LAMBDA p : IsDir(f, p))

\* The entries of a directory that clear_folder removes: files and links by
\* os.unlink, directories by shutil.rmtree
ClearsOnlyFiles(f, p) == f[p].kind = "file"
Clears(f, p) == f[p].kind \in {"file", "link"} \/ f[p].kind = "dir"

\* clear_folder(path_dir)
clear_folder(f, d) ==
    Remove(f, { p \in Under(f, d) :
                  \E k \in Children(f, d) : Clears(f, k) /\ IsPrefix(k, p) })

\* item.suffix.lower() in allowed_ext
SuffixAllowed(allowed, p) == Lower(Last(p)[2]) \in allowed

\* shutil.copy2(item, dst_item): the content of the file (of the link's
\* target) becomes a regular file at dst_item
Copy2(f, from, to) == Put(f, to, FileNode(f[from].data))

\* if not sub_has_files:
NoValidFilesIgnored(sub_has_files) == FALSE
NoValidFiles(sub_has_files) == ~sub_has_files

\* copy_filtered(src, dst, allowed_ext): [fs, has, err]. CopyItems is its
\* loop over the entries `items` of src still to be processed.
RECURSIVE copy_filtered(_, _, _, _, _), CopyItems(_, _, _, _, _, _, _)
copy_filtered(order, f, src, dst, allowed) ==
    LET m == MkdirP(f, dst)
    IN IF m.err # "" THEN [fs |-> f, has |-> FALSE, err |-> m.err]
       ELSE CopyItems(order, m.fs, ListDir(order, m.fs, src), src, dst, allowed, FALSE)

CopyItems(order, f, items, src, dst, allowed, has) ==
    IF items = << >> THEN [fs |-> f, has |-> has, err |-> ""]
    ELSE LET item == Head(items)
             dst_item == dst \o << Last(item) >>
         IN IF IsFile(f, item)
            THEN IF SuffixAllowed(allowed, item)
                 THEN IF IsDir(f, dst_item)
                      THEN [fs |-> f, has |-> has, err |-> "IsADirectoryError"]
                      ELSE CopyItems(order, Copy2(f, item, dst_item), Tail(items),
                                     src, dst, allowed, TRUE)
                 ELSE CopyItems(order, f, Tail(items), src, dst, allowed, has)
            ELSE IF IsDir(f, item)
            THEN LET sub == copy_filtered(order, f, item, dst_item, allowed)
                 IN IF sub.err # "" THEN [fs |-> sub.fs, has |-> has, err |-> sub.err]
                    ELSE IF NoValidFiles(sub.has)
                    THEN IF Exists(sub.fs, dst_item)
                         THEN \* dst_item.rmdir(): fails on a directory with entries
                              IF Children(sub.fs, dst_item) # {}
                              THEN [fs |-> sub.fs, has |-> has, err |-> "OSError"]
                              ELSE CopyItems(order, Remove(sub.fs, {dst_item}),
                                             Tail(items), src, dst, allowed, has)
                         ELSE CopyItems(order, sub.fs, Tail(items), src, dst,
                                        allowed, has)
                    ELSE CopyItems(order, sub.fs, Tail(items), src, dst, allowed, TRUE)
            ELSE CopyItems(order, f, Tail(items), src, dst, allowed, has)

\* shutil.copytree(src, dst, dirs_exist_ok=True) for trees that do not
\* contain one another: [fs, err]. Every directory under src is made under
\* dst and every file copied over what is there; an entry whose kind
\* conflicts with what dst holds makes copytree raise shutil.Error at the end
\* (the other entries are copied all the same).
copytree(f, src, dst) ==
    LET m == MkdirP(f, dst)
        all == Under(f, src)
        clash == { p \in all :
                     LET q == Rebase(p, src, dst)
                     IN \/ \E a \in Prefixes(q) :
                              a # q /\ Len(a) > Len(dst) /\ IsFile(f, a)
                        \/ IsDir(f, p) /\ IsFile(f, q)
                        \/ IsFile(f, p) /\ IsDir(f, q) }
        done == all \ clash
    IN IF m.err # "" THEN [fs |-> f, err |-> m.err]
       ELSE [fs |-> [q \in DOMAIN m.fs \cup { Rebase(p, src, dst) : p \in done } |->
                       IF \E p \in done : Rebase(p, src, dst) = q
                       THEN LET p == CHOOSE p \in done : Rebase(p, src, dst) = q
                            IN IF IsDir(f, p) THEN DirNode ELSE FileNode(f[p].data)
                       ELSE m.fs[q]],
             err |-> IF clash = {} THEN "" ELSE "shutil.Error"]

\* ------------------------------------------------------------------ zip.py

\* os.walk(src_dir), top down: the files of a directory, then its
\* subdirectories one after the other
RECURSIVE WalkFiles(_, _, _), WalkDirs(_, _, _)
WalkFiles(order, f, d) ==
    LET entries == ListDir(order, f, d)
    IN SelectSeq(entries, LAMBDA p : ~IsDir(f, p))
       \o WalkDirs(order, f, SelectSeq(entries, LAMBDA p : IsDir(f, p)))

WalkDirs(order, f, ds) ==
    IF ds = << >> THEN << >>
    ELSE WalkFiles(order, f, Head(ds)) \o WalkDirs(order, f, Tail(ds))

\* not allowed_ext or file_path.suffix.lower() in allowed_ext
QualifiesAsSpelled(allowed, p) == allowed = {} \/ Last(p)[2] \in allowed
Qualifies(allowed, p) == allowed = {} \/ SuffixAllowed(allowed, p)

\* file_path.relative_to(src_dir) as the entry name, with forward slashes
RECURSIVE JoinNames(_)
JoinNames(names) ==
    IF Len(names) = 1 THEN NameStr(names[1])
    ELSE NameStr(names[1]) \o "/" \o JoinNames(Tail(names))

ArcName(p, src_dir) == JoinNames(SubSeq(p, Len(src_dir) + 1, Len(p)))

\* The bytes of the archive: the entries in the order they were written
RECURSIVE ZipEntries(_, _, _)
ZipEntries(f, files, src_dir) ==
    IF files = << >> THEN ""
    ELSE ArcName(Head(files), src_dir) \o "=" \o f[Head(files)].data \o ";"
         \o ZipEntries(f, Tail(files), src_dir)

ZipBytes(f, files, src_dir) == "PK[" \o ZipEntries(f, files, src_dir) \o "]"

\* (dst_dir / src_dir.name).with_suffix(".zip")
ZipPath(src_dir, dst_dir) == dst_dir \o << NameOf(Last(src_dir)[1], ".zip") >>

\* What the archive at p holds right after zipfile.ZipFile(p, "w", ...):
\* nothing
ArchiveOpenedForAppend(f, p) == IF IsFile(f, p) THEN f[p].data ELSE ""
ArchiveOpened(f, p) == ""

\* if filter_empty and not files_to_zip: return None, 0
NothingToZipIgnored(filter_empty, files_to_zip) == FALSE
NothingToZip(filter_empty, files_to_zip) == filter_empty /\ files_to_zip = << >>

\* zip_directory(src_dir, dst_dir, allowed_ext, filter_empty):
\* [fs, zip, n, err]; zip is None (the empty path) when nothing is written
zip_directory(order, f, src_dir, dst_dir, allowed, filter_empty) ==
    LET dst_zip == ZipPath(src_dir, dst_dir)
        files_to_zip == SelectSeq(WalkFiles(order, f, src_dir),
                                  LAMBDA p : Qualifies(allowed, p))
    IN IF NothingToZip(filter_empty, files_to_zip)
       THEN [fs |-> f, zip |-> None, n |-> 0, err |-> ""]
       ELSE IF IsDir(f, dst_zip)
       THEN [fs |-> f, zip |-> None, n |-> 0, err |-> "IsADirectoryError"]
       ELSE [fs |-> Put(f, dst_zip, FileNode(ArchiveOpened(f, dst_zip)
                                              \o ZipBytes(f, files_to_zip, src_dir))),
             zip |-> dst_zip, n |-> Len(files_to_zip), err |-> ""]

\* ----------------------------------------------------------------- hash.py

\* The names init() accepts for --hash (hashlib.algorithms_guaranteed) that
\* the model uses; hexdigest() of the shake algorithms needs a length
algorithms == {"sha3_256", "md5", "shake_128"}
FixedLength(algorithm) == algorithm \notin {"shake_128", "shake_256"}

\* The hex digest, as a term that differs whenever algorithm or bytes differ
Digest(algorithm, bytes) == "H(" \o algorithm \o "," \o bytes \o ")"

\* hash_file(file_path, algorithm): [hex, err]. hashlib.new(algorithm) comes
\* before open(file_path, "rb")
hash_fileOpensFirst(f, file_path, algorithm) ==
    IF ~IsFile(f, file_path)
    THEN [hex |-> "", err |-> IF IsDir(f, file_path) THEN "IsADirectoryError"
                                                     ELSE "FileNotFoundError"]
    ELSE IF algorithm \notin algorithms THEN [hex |-> "", err |-> "ValueError"]
    ELSE IF ~FixedLength(algorithm) THEN [hex |-> "", err |-> "TypeError"]
    ELSE [hex |-> Digest(algorithm, f[file_path].data), err |-> ""]
hash_file(f, file_path, algorithm) ==
    IF algorithm \notin algorithms THEN [hex |-> "", err |-> "ValueError"]
    ELSE IF ~IsFile(f, file_path)
    THEN [hex |-> "", err |-> IF IsDir(f, file_path) THEN "IsADirectoryError"
                                                     ELSE "FileNotFoundError"]
    ELSE IF ~FixedLength(algorithm) THEN [hex |-> "", err |-> "TypeError"]
    ELSE [hex |-> Digest(algorithm, f[file_path].data), err |-> ""]

\* -------------------------------------------------------------------- run()
\* One call of run() by a process that holds the lock, on the Config that
\* init() built. src, dst and cpy are three trees that do not contain one
\* another.

hashes_name == NameOf("hashes", ".txt")

\* What the user may type at a prompt. A line is the sequence of its
\* characters; input() raises EOFError when stdin is at end of file.
SubdirInputs == { << >>, << "r", "u", "n", "1" >> }
ConfirmInputs == { << "y" >>, << "Y" >>, << "n" >>, << "N" >>, << >>,
                   << "y", "e", "s" >>, << "Y", "E", "S" >>,
                   << " ", "y" >>, << " ", "Y" >>, << "Y", " " >> }

\* str.upper() on the characters of the model
UpperChar(c) == CASE c = "y" -> "Y" [] c = "e" -> "E" [] c = "s" -> "S"
                  [] c = "n" -> "N" [] OTHER -> c
Upper(line) == [k \in DOMAIN line |-> UpperChar(line[k])]

\* config.dst / sub_dir: the path fragment a typed name stands for
\* (the empty string adds nothing: Path("dst") / "" == Path("dst"))
Fragment(line) == IF line = << >> THEN << >> ELSE << NameOf("run1", "") >>

\* An operation on the file system may fail for reasons outside the program
\* (disk full, permission denied)
IoOutcomes == {"", "OSError"}

\* append to the history
Did(kind, arg) == events \o << << kind, arg >> >>

\* run() leaves with the exception err
Fail(err) ==
    /\ rpc' = "failed"
    /\ error' = err
    /\ events' = Did("raise", err)

\* run() leaves with the exception err that the call `callee` raised
FailIn(callee, err) ==
    /\ rpc' = "failed"
    /\ error' = err
    /\ events' = events \o << << callee, err >>, << "raise", err >> >>

\* An exception raised by check_paths or by hash_file is not caught in run()
CheckErrorIgnored(r) == FALSE
CheckFailed(r) == r.err # ""
HashErrorIgnored(r) == FALSE
HashFailed(r) == r.err # ""

\* the history entry of a call that raised and was not allowed to end run()
Raised(callee, r) == IF r.err # "" THEN << << callee, r.err >> >> ELSE << >>

\* The stage a position of run() belongs to
StageOf(at) ==
    CASE at = "check_paths" -> "Validate"
      [] at \in {"ask_sub", "list", "zip"} -> "Archive"
      [] at \in {"hash", "final_hash"} -> "Hash"
      [] at \in {"copy_dst", "copy_src"} -> "Copy"
      [] at \in {"move_copy", "confirm", "list_clear", "clear"} -> "Move"
      [] at \in {"complete", "done"} -> "Complete"
      [] OTHER -> "none"

\* control goes to position `at`, with `what` added to the history; entering
\* another stage is part of the history
Goto(at, what) ==
    /\ rpc' = at
    /\ error' = error
    /\ events' = IF StageOf(at) # StageOf(rpc)
                 THEN events \o what \o << << "stage", StageOf(at) >> >>
                 ELSE events \o what

\* after the zip loop (line 129): the hash loop
AfterZipMoveFirst(c) == IF c.mv THEN "list_clear" ELSE "hash"
AfterZip(c) == "hash"

\* after the final hash (line 146): `if config.cpy:`, then `if config.mv:`
AfterFingerprintMoveFirst(c) ==
    IF c.mv THEN "move_copy" ELSE IF c.cpy # None THEN "copy_dst" ELSE "complete"
AfterFingerprint(c) ==
    IF c.cpy # None THEN "copy_dst" ELSE IF c.mv THEN "move_copy" ELSE "complete"

\* after the copy stage (line 167): `if config.mv:`
AfterCopy(c) == IF c.mv THEN "move_copy" ELSE "complete"

\* `if confirm != "Y":` is false
AffirmativeAny(confirm) == TRUE
Affirmative(confirm) == confirm = << "Y" >>

\* check_paths(config.src, config.dst, config.cpy); sub_dir = None and, when
\* no subdirectory is asked for, dst_dir = config.dst
RunCheckPaths ==
    /\ rpc = "check_paths"
    /\ LET r == check_paths(fs, config.src, config.dst, config.cpy)
       IN /\ fs' = r.fs
          /\ IF CheckFailed(r)
             THEN FailIn("check_paths", r.err) /\ loc' = loc
             ELSE /\ Goto(IF config.sub_dir THEN "ask_sub" ELSE "list",
                          Raised("check_paths", r))
                  /\ loc' = [loc EXCEPT !.dst_dir = config.dst]
    /\ UNCHANGED << lockVars, histVars, mainVars, config, listing, fs0 >>

\* sub_dir = input(...); dst_dir = config.dst / sub_dir; dst_dir.mkdir(...)
RunAskSubdir ==
    /\ rpc = "ask_sub"
    /\ \E eof \in BOOLEAN, line \in SubdirInputs :
         IF eof
         THEN Fail("EOFError") /\ UNCHANGED << fs, loc >>
         ELSE LET dst_dir == config.dst \o Fragment(line)
                  m == MkdirP(fs, dst_dir)
              IN /\ fs' = m.fs
                 /\ loc' = [loc EXCEPT !.sub_dir = Fragment(line), !.dst_dir = dst_dir]
                 /\ IF m.err # "" THEN Fail(m.err) ELSE Goto("list", << >>)
    /\ UNCHANGED << lockVars, histVars, mainVars, config, listing, fs0 >>

\* zip_files = []; the list get_subdirectories(config.src) is built
RunListSubdirs ==
    /\ rpc = "list"
    /\ loc' = [loc EXCEPT !.todo = get_subdirectories(listing, fs, config.src),
                          !.zip_files = << >>]
    /\ Goto("zip", << << "listed", "" >> >>)
    /\ UNCHANGED << lockVars, histVars, mainVars, config, fs, listing, fs0 >>

\* one iteration of the zip loop: zip_directory and the append
\* (loc.files_in_zip keeps the count every call returned, one after the other)
RunZipNext ==
    /\ rpc = "zip"
    /\ loc.todo # << >>
    /\ \E io \in IoOutcomes :
         LET src_dir == Head(loc.todo)
             r == zip_directory(listing, fs, src_dir, loc.dst_dir,
                                IF config.fil_zip THEN allowed_ext ELSE NoFilter,
                                config.fil_empty)
         IN IF io # "" \/ r.err # ""
            THEN Fail(IF r.err # "" THEN r.err ELSE io) /\ UNCHANGED << fs, loc >>
            ELSE /\ fs' = r.fs
                 /\ loc' = [loc EXCEPT !.todo = Tail(@),
                              !.zip_files = IF r.zip # None THEN Append(@, r.zip) ELSE @,
                              !.files_in_zip = Append(@, r.n)]
                 /\ Goto("zip", << << "zip_directory", NameStr(Last(src_dir)) >>,
                                    IF r.zip # None
                                    THEN << "zip", NameStr(Last(r.zip)) >>
                                    ELSE << "not_zipped", NameStr(Last(src_dir)) >> >>)
    /\ UNCHANGED << lockVars, histVars, mainVars, config, listing, fs0 >>

\* the zip loop is over; hashes = {}
RunZipDone ==
    /\ rpc = "zip"
    /\ loc.todo = << >>
    /\ loc' = [loc EXCEPT !.hashQ = loc.zip_files, !.hashes = << >>]
    /\ Goto(AfterZip(config), << << "archived", "" >> >>)
    /\ UNCHANGED << lockVars, histVars, mainVars, config, fs, listing, fs0 >>

\* hashes[name] = h: a dict keeps the place of a key it already has
DictSet(d, k, v) ==
    IF \E n \in DOMAIN d : d[n][1] = k
    THEN [n \in DOMAIN d |-> IF d[n][1] = k THEN << k, v >> ELSE d[n]]
    ELSE Append(d, << k, v >>)

\* one iteration of the hash loop
RunHashNext ==
    /\ rpc = "hash"
    /\ loc.hashQ # << >>
    /\ LET zip_file == Head(loc.hashQ)
           r == hash_file(fs, zip_file, config.hash)
       IN IF HashFailed(r)
          THEN FailIn("hash_file", r.err) /\ loc' = loc
          ELSE /\ loc' = [loc EXCEPT !.hashQ = Tail(@),
                            !.hashes = DictSet(@, NameStr(Last(zip_file)), r.hex)]
               /\ Goto("hash", Raised("hash_file", r)
                                \o << << "hashed", NameStr(Last(zip_file)) >> >>)
    /\ UNCHANGED << lockVars, histVars, mainVars, config, fs, listing, fs0 >>

\* f"{k} ({config.hash}): {v}\n" for every item of hashes
RECURSIVE ManifestText(_, _)
ManifestText(d, algorithm) ==
    IF d = << >> THEN ""
    ELSE Head(d)[1] \o " (" \o algorithm \o "): " \o Head(d)[2] \o "\n"
         \o ManifestText(Tail(d), algorithm)

\* What the file at p holds right after open(p, "w"): nothing
OpenForAppend(f, p) == IF IsFile(f, p) THEN f[p].data ELSE ""
OpenForWrite(f, p) == ""

\* `for zip_file in zip_files:` has gone through every archive
HashLoopOverEarly(q) == TRUE
HashLoopOver(q) == q = << >>

\* with hashes_file.open("w") as f: f.writelines(...)
RunWriteManifest ==
    /\ rpc = "hash"
    /\ HashLoopOver(loc.hashQ)
    /\ \E io \in IoOutcomes :
         LET hashes_file == loc.dst_dir \o << hashes_name >>
         IN IF IsDir(fs, hashes_file) \/ io # ""
            THEN Fail(IF io # "" THEN io ELSE "IsADirectoryError")
                 /\ UNCHANGED << fs, loc >>
            ELSE /\ fs' = Put(fs, hashes_file,
                              FileNode(OpenForWrite(fs, hashes_file)
                                       \o ManifestText(loc.hashes, config.hash)))
                 /\ loc' = [loc EXCEPT !.hashes_file = hashes_file]
                 /\ Goto("final_hash", << << "manifest", "" >> >>)
    /\ UNCHANGED << lockVars, histVars, mainVars, config, listing, fs0 >>

\* h = hash_file(hashes_file, config.hash); log.critical(...)
RunFingerprint ==
    /\ rpc = "final_hash"
    /\ LET r == hash_file(fs, loc.hashes_file, config.hash)
       IN IF HashFailed(r)
          THEN FailIn("hash_file", r.err) /\ loc' = loc
          ELSE /\ loc' = [loc EXCEPT !.h = r.hex]
               /\ Goto(AfterFingerprint(config),
                       Raised("hash_file", r) \o << << "fingerprint", r.hex >> >>)
    /\ UNCHANGED << lockVars, histVars, mainVars, config, fs, listing, fs0 >>

\* cpy_dir is resolved (and made); shutil.copytree(dst_dir, cpy_dir)
RunCopyDst ==
    /\ rpc = "copy_dst"
    /\ \E io \in IoOutcomes :
         LET cpy_dir == IF loc.sub_dir # << >> THEN config.cpy \o loc.sub_dir
                                               ELSE config.cpy
             m == IF loc.sub_dir # << >> THEN MkdirP(fs, cpy_dir)
                                         ELSE [fs |-> fs, err |-> ""]
             r == copytree(m.fs, loc.dst_dir, cpy_dir)
         IN IF io # "" \/ m.err # ""
            THEN Fail(IF m.err # "" THEN m.err ELSE io) /\ UNCHANGED << fs, loc >>
            ELSE /\ fs' = r.fs
                 /\ loc' = [loc EXCEPT !.cpy_dir = cpy_dir]
                 /\ IF r.err # "" THEN Fail(r.err)
                    ELSE Goto("copy_src", << << "copied_dst", "" >> >>)
    /\ UNCHANGED << lockVars, histVars, mainVars, config, listing, fs0 >>

\* `if config.fil_cpy:` of the Copy section
CopyIsFilteredAsMove(c) == c.fil_mv
CopyIsFiltered(c) == c.fil_cpy

\* the source tree is copied into cpy_dir, filtered or not
RunCopySrc ==
    /\ rpc = "copy_src"
    /\ \E io \in IoOutcomes :
         LET r == IF CopyIsFiltered(config)
                  THEN copy_filtered(listing, fs, config.src, loc.cpy_dir, allowed_ext)
                  ELSE copytree(fs, config.src, loc.cpy_dir)
         IN IF io # "" THEN Fail(io) /\ fs' = fs
            ELSE /\ fs' = r.fs
                 /\ IF r.err # "" THEN Fail(r.err)
                    ELSE Goto(AfterCopy(config), << << "copied_src", "" >> >>)
    /\ UNCHANGED << lockVars, histVars, mainVars, config, listing, loc, fs0 >>

\* `if config.fil_mv:` of the Move section
MoveIsFilteredAsCopy(c) == c.fil_cpy
MoveIsFiltered(c) == c.fil_mv

\* the source tree is copied into dst_dir, filtered or not
RunMoveCopy ==
    /\ rpc = "move_copy"
    /\ \E io \in IoOutcomes :
         LET r == IF MoveIsFiltered(config)
                  THEN copy_filtered(listing, fs, config.src, loc.dst_dir, allowed_ext)
                  ELSE copytree(fs, config.src, loc.dst_dir)
         IN IF io # "" THEN Fail(io) /\ fs' = fs
            ELSE /\ fs' = r.fs
                 /\ IF r.err # "" THEN Fail(r.err)
                    ELSE Goto(IF config.safe THEN "confirm" ELSE "list_clear",
                              << << "move_copied", "" >> >>)
    /\ UNCHANGED << lockVars, histVars, mainVars, config, listing, loc, fs0 >>

\* input(prompt): the line as it was typed, without the newline; nothing
\* is stripped from it
TypedStripped(line) == SelectSeq(line, LAMBDA c : c # " ")
Typed(line) == line

\* confirm = input(...).upper(); if confirm != "Y": raise RuntimeError
RunConfirm ==
    /\ rpc = "confirm"
    /\ \E eof \in BOOLEAN, line \in ConfirmInputs :
         IF eof
         THEN Fail("EOFError") /\ loc' = loc
         ELSE /\ loc' = [loc EXCEPT !.answer = line, !.confirm = Upper(Typed(line)),
                                   !.asked = TRUE]
              /\ IF Affirmative(Upper(Typed(line)))
                 THEN Goto("list_clear", << << "confirm", "yes" >> >>)
                 ELSE Fail("RuntimeError")
    /\ UNCHANGED << lockVars, histVars, mainVars, config, fs, listing, fs0 >>

\* `for src_dir in get_subdirectories(config.src):` of the Move section
SubdirsArchived(order, f, c, l) ==
    SelectSeq(get_subdirectories(order, f, c.src),
              LAMBDA d : \E k \in DOMAIN l.zip_files :
                            l.zip_files[k] = ZipPath(d, l.dst_dir))
SubdirsToClear(order, f, c, l) == get_subdirectories(order, f, c.src)

\* the list get_subdirectories(config.src) of the clearing loop is built
RunListForClear ==
    /\ rpc = "list_clear"
    /\ loc' = [loc EXCEPT !.clearQ = SubdirsToClear(listing, fs, config, loc)]
    /\ Goto("clear", << << "listed_for_clear", "" >> >>)
    /\ UNCHANGED << lockVars, histVars, mainVars, config, fs, listing, fs0 >>

\* one iteration of the clearing loop: clear_folder(src_dir)
RunClearNext ==
    /\ rpc = "clear"
    /\ loc.clearQ # << >>
    /\ \E io \in IoOutcomes :
         IF io # "" THEN Fail(io) /\ UNCHANGED << fs, loc >>
         ELSE /\ fs' = clear_folder(fs, Head(loc.clearQ))
              /\ loc' = [loc EXCEPT !.clearQ = Tail(@)]
              /\ Goto("clear", << << "clear", NameStr(Last(Head(loc.clearQ))) >> >>)
    /\ UNCHANGED << lockVars, histVars, mainVars, config, listing, fs0 >>

\* the clearing loop is over
RunClearDone ==
    /\ rpc = "clear"
    /\ loc.clearQ = << >>
    /\ Goto("complete", << << "moved", "" >> >>)
    /\ UNCHANGED << lockVars, histVars, mainVars, config, fs, listing, loc, fs0 >>

\* log.info("Process completed successfully"); input("Press ENTER to exit...")
RunComplete ==
    /\ rpc = "complete"
    /\ \E eof \in BOOLEAN :
         IF eof THEN Fail("EOFError") ELSE Goto("done", << << "returned", "" >> >>)
    /\ UNCHANGED << lockVars, histVars, mainVars, config, fs, listing, loc, fs0 >>

\* ---- the states run() starts in

A_dir == SrcRoot \o << NameOf("A", "") >>
B_dir == SrcRoot \o << NameOf("B", "") >>

\* src with A (files, a link and a nested directory) and an empty B
SrcNested ==
    (SrcRoot :> DirNode) @@ (A_dir :> DirNode) @@ (B_dir :> DirNode)
    @@ ((A_dir \o << NameOf("x", ".txt") >>) :> FileNode("d1"))
    @@ ((A_dir \o << NameOf("y", ".bin") >>) :> FileNode("d2"))
    @@ ((A_dir \o << NameOf("l", "") >>) :> LinkNode("d4"))
    @@ ((A_dir \o << NameOf("n", "") >>) :> DirNode)
    @@ ((A_dir \o << NameOf("n", ""), NameOf("z", ".TXT") >>) :> FileNode("d3"))

\* src with A (an allowed file) and B (a file that is not allowed)
SrcTwo ==
    (SrcRoot :> DirNode) @@ (A_dir :> DirNode) @@ (B_dir :> DirNode)
    @@ ((A_dir \o << NameOf("x", ".txt") >>) :> FileNode("d1"))
    @@ ((B_dir \o << NameOf("y", ".bin") >>) :> FileNode("d5"))

\* src with one subdirectory and a file of its own
SrcTopFile ==
    (SrcRoot :> DirNode) @@ (A_dir :> DirNode)
    @@ ((A_dir \o << NameOf("x", ".txt") >>) :> FileNode("d1"))
    @@ ((SrcRoot \o << NameOf("notes", ".md") >>) :> FileNode("d6"))

\* src with A and A.v2, each with one allowed file
SrcDotted ==
    (SrcRoot :> DirNode) @@ (A_dir :> DirNode)
    @@ ((SrcRoot \o << NameOf("A", ".v2") >>) :> DirNode)
    @@ ((A_dir \o << NameOf("x", ".txt") >>) :> FileNode("d1"))
    @@ ((SrcRoot \o << NameOf("A", ".v2"), NameOf("x", ".txt") >>) :> FileNode("d10"))

\* src with one subdirectory and, of its own, files named like the manifest
\* and like the archive of the subdirectory
SrcNamesakes ==
    (SrcRoot :> DirNode) @@ (A_dir :> DirNode)
    @@ ((A_dir \o << NameOf("x", ".txt") >>) :> FileNode("d1"))
    @@ ((SrcRoot \o << NameOf("hashes", ".txt") >>) :> FileNode("d13"))
    @@ ((SrcRoot \o << NameOf("A", ".zip") >>) :> FileNode("d14"))

\* no subdirectory; src is a regular file; src does not exist
SrcEmpty == (SrcRoot :> DirNode)
SrcIsFile == (SrcRoot :> FileNode("d7"))
SrcAbsent == << >>

SrcStates == { SrcNested, SrcTwo, SrcDotted, SrcTopFile, SrcNamesakes, SrcEmpty,
               SrcIsFile, SrcAbsent }

\* dst does not exist; is empty; is a regular file; holds what an earlier
\* unfiltered run moved there; holds the archive an earlier run made of B;
\* holds the archives and the manifest of an earlier run (md5) on other data
DstAbsent == << >>
DstEmpty == (DstRoot :> DirNode)
DstIsFile == (DstRoot :> FileNode("d8"))
DstUsed ==
    (DstRoot :> DirNode) @@ ((DstRoot \o << NameOf("B", "") >>) :> DirNode)
    @@ ((DstRoot \o << NameOf("B", ""), NameOf("old", ".bin") >>) :> FileNode("d9"))

DstStale ==
    (DstRoot :> DirNode)
    @@ ((DstRoot \o << NameOf("B", ".zip") >>) :> FileNode("PK[y.bin=d5;]"))

DstRerun ==
    (DstRoot :> DirNode)
    @@ ((DstRoot \o << NameOf("A", ".zip") >>) :> FileNode("PK[x.txt=d0;]"))
    @@ ((DstRoot \o << NameOf("B", ".zip") >>) :> FileNode("PK[]"))
    @@ ((DstRoot \o << NameOf("hashes", ".txt") >>) :>
          FileNode("A.zip (md5): H(md5,PK[x.txt=d0;])\nB.zip (md5): H(md5,PK[])\n"))

DstStates == { DstAbsent, DstEmpty, DstIsFile, DstUsed, DstStale, DstRerun }

\* The values of Config.hash in the runs of the model: a name of
\* `algorithms` with a fixed digest length, one without, and a name hashlib
\* does not know (init() rejects it; a caller that sets config itself, as
\* the tests do, may pass any string)
RunHashes == {"sha3_256", "shake_128", "sha0"}

\* The Configs run() is started with on src, dst and cpy (flags that are not
\* read because cpy or mv is unset are left at their defaults)
Configs ==
    { c \in [src : {SrcRoot}, dst : {DstRoot}, cpy : {None, CpyRoot},
             sub_dir : BOOLEAN, hash : RunHashes, mv : BOOLEAN,
             fil_zip : BOOLEAN, fil_cpy : BOOLEAN, fil_mv : BOOLEAN,
             fil_empty : BOOLEAN, safe : BOOLEAN] :
        /\ c.cpy = None => ~c.fil_cpy
        /\ ~c.mv => (~c.fil_mv /\ c.safe) }

\* the locals of run() before its first statement
Locals0 == [sub_dir |-> << >>, dst_dir |-> << >>, todo |-> << >>,
            zip_files |-> << >>, hashQ |-> << >>, hashes |-> << >>,
            hashes_file |-> << >>, h |-> "", cpy_dir |-> << >>,
            answer |-> << >>, confirm |-> << >>, asked |-> FALSE,
            clearQ |-> << >>, files_in_zip |-> << >>]

InitRun ==
    /\ InitObjects
    /\ NoMain
    /\ lockfile = [i \in Inst |-> Resolve("/w1", LockName)]
    /\ procOf = [i \in Inst |-> i]
    /\ openFds = [p \in Procs |-> {0, 1, 2}]
    /\ limit = WaitLimit(MAX_MINUTES_WAITING)
    /\ markers = {}
    /\ content = [q \in LockPaths |-> 0]
    /\ config \in Configs
    /\ listing \in NameOrders
    /\ \E s \in SrcStates, d \in DstStates : fs = s @@ d
    /\ fs0 = fs
    /\ rpc = "check_paths"
    /\ loc = Locals0
    /\ error = ""
    /\ events = << << "stage", "Validate" >> >>

NextRun ==
    \/ RunCheckPaths
    \/ RunAskSubdir
    \/ RunListSubdirs
    \/ RunZipNext
    \/ RunZipDone
    \/ RunHashNext
    \/ RunWriteManifest
    \/ RunFingerprint
    \/ RunCopyDst
    \/ RunCopySrc
    \/ RunMoveCopy
    \/ RunConfirm
    \/ RunListForClear
    \/ RunClearNext
    \/ RunClearDone
    \/ RunComplete

SpecRun == InitRun /\ [][NextRun]_vars

\* ------------------------------------------------------------------ claims

\* C1: two instances constructed on the same lockfile path are never both in
\* the acquired state (acquire() returned, release() not yet called),
\* whatever the interleaving of their acquire() and release() calls.
C1_MutualExclusion ==
    \A i, j \in Inst :
        (i # j /\ lockfile[i] = lockfile[j]) => ~(held[i] /\ held[j])

\* One instance holds the lock while another one, on the same path, has
\* failed an attempt and is sleeping before the next
C1_Witness ==
    \E i, j \in Inst :
        /\ i # j /\ lockfile[i] = lockfile[j]
        /\ held[i] /\ pc[i] = "idle"
        /\ pc[j] = "a_sleep" /\ attempts[j] >= 1

\* C8: when release() returns on an instance whose acquire() had succeeded,
\* the marker file is gone and fd is None, whatever descriptor acquire() got.
C8_ReleaseRemovesMarker ==
    [][\A i \in Inst :
          (InRelease(i) /\ wasHeld[i] /\ pc'[i] = "idle")
              => (fd'[i] = None /\ lockfile[i] \notin markers')]_vars

\* C9: a waiter that saw the holder's release() return within its budget
\* (and no other instance taking the lock since) does not give up.
C9_WaiterSucceeds ==
    \A j \in Inst : handoff[j] => pc[j] # "exited"

\* C10: with the marker present throughout, acquire() ends in sys.exit(1)
\* after exactly limit + 1 attempts and limit sleeps (limit = 3000 by
\* default), never returns, leaves fd None and leaves the marker in place.
C10_TimeoutGivesUp ==
    /\ WaitLimit(MAX_MINUTES_WAITING) = 3000
    /\ [](\A i \in Inst :
            /\ ~held[i]
            /\ fd[i] = None
            /\ lockfile[i] \in markers /\ content[lockfile[i]] = DeadPid
            /\ pc[i] = "exited" => (attempts[i] = limit + 1 /\ sleeps[i] = limit))
    /\ \A i \in Inst : InAcquire(i) ~> (pc[i] = "exited")

\* An instance gave up under the default limit
C10_Witness ==
    \E i \in Inst : /\ pc[i] = "exited"
                    /\ limit = WaitLimit(MAX_MINUTES_WAITING)
                    /\ attempts[i] = 3001

\* C2: init() and run() execute in a process only while it holds the lock, so
\* of the processes sharing one lock path at most one is in the body of
\* main(), and the others are still before or inside acquire(), or have left.
C2_BodyOnlyUnderLock ==
    \A p \in Procs :
        InBody(p) =>
            /\ HoldsLock(p) /\ held[p]
            /\ \A q \in Procs \ {p} :
                 lockfile[q] = lockfile[p] =>
                    /\ ~InBody(q)
                    /\ mpc[q] \in {"start", "acquire", "sysexit", "exit",
                                   "release", "returned", "raised"}
                    /\ mpc[q] = "acquire" =>
                          (pc[q] \in {"a_open", "a_sleep", "exited"} /\ ~held[q])

\* A process is in run() while another one on the same lock path polls
C2_Witness ==
    \E p, q \in Procs :
        /\ p # q /\ lockfile[p] = lockfile[q]
        /\ mpc[p] = "run"
        /\ mpc[q] = "acquire" /\ pc[q] = "a_sleep"

\* C7: two invocations on the same source directory are never both in the
\* body of main() at the same time.
C7_SameSourceSerialized ==
    \A p, q \in Procs :
        (p # q /\ srcArg[p] = srcArg[q]) => ~(InBody(p) /\ InBody(q))

\* ------------------------------------------------- check_paths on its own

\* cpy does not exist; is an empty directory; is a regular file
CpyAbsent == << >>
CpyEmpty == (CpyRoot :> DirNode)
CpyIsFile == (CpyRoot :> FileNode("d11"))
CpyStates == { CpyAbsent, CpyEmpty, CpyIsFile }

\* The arguments of a call: dst is the destination root or a directory one
\* level below it, cpy is None or the copy root
CheckArgs == [src : {SrcRoot}, dst : {DstRoot, DstRoot \o << NameOf("run1", "") >>},
              cpy : {None, CpyRoot}]

InitCheckPaths ==
    /\ InitObjects
    /\ NoMain
    /\ lockfile = [i \in Inst |-> Resolve("/w1", LockName)]
    /\ procOf = [i \in Inst |-> i]
    /\ openFds = [p \in Procs |-> {0, 1, 2}]
    /\ limit = WaitLimit(MAX_MINUTES_WAITING)
    /\ markers = {}
    /\ content = [q \in LockPaths |-> 0]
    /\ config \in CheckArgs
    /\ listing \in NameOrders
    /\ \E s \in SrcStates, d \in DstStates, c \in CpyStates :
          /\ config.cpy = None => c = CpyAbsent
          /\ fs = s @@ d @@ c
    /\ fs0 = fs
    /\ rpc = "call"
    /\ loc = << >>
    /\ error = ""
    /\ events = << >>

\* check_paths(src, dst, cpy) is called and returns or raises
CallCheckPaths ==
    /\ rpc = "call"
    /\ LET r == check_paths(fs, config.src, config.dst, config.cpy)
       IN /\ fs' = r.fs
          /\ error' = r.err
    /\ rpc' = "returned"
    /\ UNCHANGED << lockVars, histVars, mainVars, config, listing, loc, events, fs0 >>

NextCheckPaths == CallCheckPaths

SpecCheckPaths == InitCheckPaths /\ [][NextCheckPaths]_vars

\* ------------------------------------------- the Hash stage of two runs
\* Two runs, each on a destination of its own, at the point where the zip
\* loop has ended. Here config, fs, rpc, loc and error are functions of the
\* run.

Runs == {1, 2}

A_zip == DstRoot \o << NameOf("A", ".zip") >>
B_zip == DstRoot \o << NameOf("B", ".zip") >>

\* zip_files of a run: the archives the zip loop produced, in its order
ZipLists == { << >>, << A_zip >>, << B_zip >>, << A_zip, B_zip >>, << B_zip, A_zip >> }

\* The destination of a run: the root with the archives of zips and, when
\* stale is set, the hashes.txt of an earlier run
DstAfterZip(zips, stale) ==
    [p \in {DstRoot} \cup { zips[k] : k \in DOMAIN zips }
            \cup (IF stale THEN {DstRoot \o << hashes_name >>} ELSE {}) |->
        IF p = DstRoot THEN DirNode
        ELSE IF p = A_zip THEN FileNode("PK[x.txt=d1;]")
        ELSE IF p = B_zip THEN FileNode("PK[y.bin=d5;]")
        ELSE FileNode("old.zip (md5): H(md5,PK[])\n")]

InitPair ==
    /\ InitObjects
    /\ NoMain
    /\ lockfile = [i \in Inst |-> Resolve("/w1", LockName)]
    /\ procOf = [i \in Inst |-> i]
    /\ openFds = [p \in Procs |-> {0, 1, 2}]
    /\ limit = WaitLimit(MAX_MINUTES_WAITING)
    /\ markers = {}
    /\ content = [q \in LockPaths |-> 0]
    /\ config \in [Runs -> [hash : algorithms]]
    /\ listing \in NameOrders
    /\ \E zs \in [Runs -> ZipLists], stale \in [Runs -> BOOLEAN] :
          /\ fs = [r \in Runs |-> DstAfterZip(zs[r], stale[r])]
          /\ loc = [r \in Runs |->
                     [dst_dir |-> DstRoot, zip_files |-> zs[r], hashQ |-> zs[r],
                      hashes |-> << >>, hashes_file |-> << >>, h |-> ""]]
    /\ fs0 = fs
    /\ rpc = [r \in Runs |-> "hash"]
    /\ error = [r \in Runs |-> ""]
    /\ events = << >>

PairUnchanged == UNCHANGED << lockVars, histVars, mainVars, config, listing, events, fs0 >>

\* one iteration of the hash loop of run r
PairHashNext(r) ==
    /\ rpc[r] = "hash"
    /\ loc[r].hashQ # << >>
    /\ LET zip_file == Head(loc[r].hashQ)
           x == hash_file(fs[r], zip_file, config[r].hash)
       IN IF HashFailed(x)
          THEN /\ rpc' = [rpc EXCEPT ![r] = "failed"]
               /\ error' = [error EXCEPT ![r] = x.err]
               /\ loc' = loc
          ELSE /\ loc' = [loc EXCEPT ![r].hashQ = Tail(@),
                            ![r].hashes = DictSet(@, NameStr(Last(zip_file)), x.hex)]
               /\ UNCHANGED << rpc, error >>
    /\ fs' = fs
    /\ PairUnchanged

\* run r writes hashes.txt
PairWriteManifest(r) ==
    /\ rpc[r] = "hash"
    /\ loc[r].hashQ = << >>
    /\ LET hashes_file == loc[r].dst_dir \o << hashes_name >>
       IN /\ fs' = [fs EXCEPT ![r] =
                      Put(@, hashes_file,
                          FileNode(OpenForWrite(fs[r], hashes_file)
                                   \o ManifestText(loc[r].hashes, config[r].hash)))]
          /\ loc' = [loc EXCEPT ![r].hashes_file = hashes_file]
    /\ rpc' = [rpc EXCEPT ![r] = "final_hash"]
    /\ error' = error
    /\ PairUnchanged

\* run r computes and logs the hash of hashes.txt
PairFingerprint(r) ==
    /\ rpc[r] = "final_hash"
    /\ LET x == hash_file(fs[r], loc[r].hashes_file, config[r].hash)
       IN IF HashFailed(x)
          THEN /\ rpc' = [rpc EXCEPT ![r] = "failed"]
               /\ error' = [error EXCEPT ![r] = x.err]
               /\ loc' = loc
          ELSE /\ rpc' = [rpc EXCEPT ![r] = "logged"]
               /\ error' = error
               /\ loc' = [loc EXCEPT ![r].h = x.hex]
    /\ fs' = fs
    /\ PairUnchanged

NextPair == \E r \in Runs : PairHashNext(r) \/ PairWriteManifest(r) \/ PairFingerprint(r)

SpecPair == InitPair /\ [][NextPair]_vars

\* ---- reading the history of a run

\* the positions of the events of a kind, and their arguments in order
Idx(kind) == { k \in DOMAIN events : events[k][1] = kind }
Args(kind) ==
    LET sel == SelectSeq(events, LAMBDA e : e[1] = kind)
    IN [k \in DOMAIN sel |-> sel[k][2]]
\* an event of the kind is in the history before position k
Before(kind, k) == \E j \in 1..(k - 1) : events[j][1] = kind
First(kind) == CHOOSE k \in Idx(kind) : \A j \in Idx(kind) : k <= j

\* Everything that was under src when run() started is still there, unchanged
SrcUnchanged ==
    \A p \in DOMAIN fs0 :
        IsPrefix(SrcRoot, p) => (p \in DOMAIN fs /\ fs[p] = fs0[p])

\* The user was asked to confirm the move and the answer was (not) accepted
Declined == loc.asked /\ loc.confirm # << "Y" >>
Confirmed == loc.asked /\ loc.confirm = << "Y" >>

\* C3: clear_folder runs only after the zip loop ended, every produced
\* archive was hashed, hashes.txt was written and its hash computed, in that
\* order and with no exception before; and as long as the fingerprint has not
\* been computed (also when a step raised) nothing under src has changed.
C3_ClearOnlyAfterHash ==
    /\ \A k \in Idx("clear") :
          /\ Idx("archived") # {} /\ Idx("manifest") # {} /\ Idx("fingerprint") # {}
          /\ First("archived") < First("manifest")
          /\ First("manifest") < First("fingerprint")
          /\ First("fingerprint") < k
          /\ \A j \in Idx("hashed") :
                First("archived") < j /\ j < First("manifest")
          /\ Args("hashed") = Args("zip")
          /\ ~Before("raise", k)
    /\ Idx("fingerprint") = {} => SrcUnchanged

\* A run that archived and hashed two subdirectories and then cleared them
C3_Witness ==
    /\ rpc = "done"
    /\ Len(Args("zip")) = 2 /\ Len(Args("hashed")) = 2
    /\ Len(Args("clear")) = 2
    /\ ~SrcUnchanged

\* C4: with mv and safe set and an answer that is not affirmative, run()
\* raises RuntimeError, clear_folder is not called and the source is as it
\* was, and the copy of the source into dst_dir was made before.
C4_DeclineKeepsSource ==
    (config.mv /\ config.safe /\ Declined) =>
        /\ rpc = "failed" /\ error = "RuntimeError"
        /\ Idx("clear") = {}
        /\ SrcUnchanged
        /\ Idx("move_copied") # {} /\ First("move_copied") < First("raise")
        /\ \A p \in Under(fs, SrcRoot) :
              (IsFile(fs, p) /\ (config.fil_mv => SuffixAllowed(allowed_ext, p)))
                 => LET q == Rebase(p, SrcRoot, loc.dst_dir)
                    IN IsFile(fs, q) /\ fs[q].data = fs[p].data

\* The user answered "yes" (not the single letter) on a source with content
C4_Witness ==
    /\ config.mv /\ config.safe /\ Declined
    /\ loc.confirm = << "Y", "E", "S" >>
    /\ Cardinality(Under(fs, SrcRoot)) >= 4
    /\ rpc = "failed"

\* C5: with mv and safe set and an affirmative answer, once the clearing loop
\* is over clear_folder has been called exactly once on every subdirectory of
\* src, in the order the Archive stage discovered them, and each of them
\* still exists and has no entry left.
C5_AllSubdirsCleared ==
    (config.mv /\ config.safe /\ Confirmed /\ rpc \in {"complete", "done"}) =>
        /\ Args("clear") = Args("zip_directory")
        /\ \A j, k \in DOMAIN Args("clear") :
              j # k => Args("clear")[j] # Args("clear")[k]
        /\ { Args("clear")[k] : k \in DOMAIN Args("clear") }
              = { NameStr(Last(d)) : d \in { c \in Children(fs0, SrcRoot) : IsDir(fs0, c) } }
        /\ \A d \in Children(fs0, SrcRoot) :
              IsDir(fs0, d) => (IsDir(fs, d) /\ Under(fs, d) = {})

\* Two subdirectories were cleared, one of which held files, a link and a
\* nested directory with a file
C5_Witness ==
    /\ config.mv /\ config.safe /\ Confirmed /\ rpc = "done"
    /\ Len(Args("clear")) = 2
    /\ \E p \in DOMAIN fs0 : fs0[p].kind = "link"
    /\ \E p \in DOMAIN fs0 : Len(p) = 4 /\ IsPrefix(SrcRoot, p)

\* The stages a run with Config c goes through when nothing fails
ExpectedStages(c) ==
    << "Validate", "Archive", "Hash" >>
    \o (IF c.cpy # None THEN << "Copy" >> ELSE << >>)
    \o (IF c.mv THEN << "Move" >> ELSE << >>)
    \o << "Complete" >>

\* C6: the stages entered so far are always a beginning of Validate, Archive,
\* Hash, Copy (iff a copy root is configured), Move (iff requested), Complete,
\* the run is in the last stage it entered, a run that returns has gone
\* through all of them, and a run that failed does nothing more.
C6_StageOrder ==
    /\ [](LET st == Args("stage")
          IN /\ Len(st) <= Len(ExpectedStages(config))
             /\ st = SubSeq(ExpectedStages(config), 1, Len(st))
             /\ rpc # "failed" => StageOf(rpc) = st[Len(st)]
             /\ rpc = "done" => st = ExpectedStages(config))
    /\ [][rpc = "failed" => (rpc' = "failed" /\ events' = events /\ fs' = fs)]_vars

\* A run with a copy root and a move went through the six stages and returned
C6_Witness ==
    /\ rpc = "done"
    /\ Args("stage") = << "Validate", "Archive", "Hash", "Copy", "Move", "Complete" >>

\* ---- release on the exit paths, without acquire, and twice

\* Process p has left the with-statement of main()
LeftWith(p) == mpc[p] \in {"returned", "raised"}

\* C11: once a process has left the with-statement of main(), by normal
\* completion, by an exception that main() handled or by one that propagates,
\* the marker file it created does not exist any more.
C11_ReleasedOnEveryExit ==
    \A p \in Procs : LeftWith(p) => ~HoldsLock(p)

\* The step of instance i that decides `if self.fd:` in release()
ReleaseDecides(i) == pc[i] = "r_test" /\ pc'[i] # "r_test"

\* release() returns at once: nothing is closed, created, written or deleted
ReleaseIsNoOp(i) ==
    /\ pc'[i] = "idle"
    /\ fd' = fd
    /\ openFds' = openFds
    /\ markers' = markers
    /\ content' = content

\* C12: release() on an instance on which no acquire() has returned closes
\* no descriptor, creates no file and deletes no marker file, also when
\* another instance's marker is at the same path.
C12_ReleaseWithoutAcquire ==
    [][\A i \in Inst : (relCount[i] = -1 /\ ReleaseDecides(i)) => ReleaseIsNoOp(i)]_vars

\* release() was called on an instance that never acquired while the marker
\* of another instance is at its path, and has returned with the marker
\* still there
C12_Witness ==
    \E i, j \in Inst :
        /\ i # j /\ lockfile[i] = lockfile[j]
        /\ relCount[i] = -1 /\ pc[i] = "idle" /\ ~wasHeld[i] /\ attempts[i] = 0
        /\ handoff[j] = FALSE /\ held[j]
        /\ lockfile[j] \in markers /\ content[lockfile[j]] = procOf[j]
        /\ \E k \in Inst : k # i /\ pc[k] = "a_sleep"

C19_HandlerAndRelease ==
    \A p \in Procs :
        (LeftWith(p) /\ thrown[p] = "Exception") =>
            /\ log[p] => (errlog[p] /\ mpc[p] = "returned")
            /\ ~log[p] => (~errlog[p] /\ mpc[p] = "raised" /\ exc[p] = "Exception")
            /\ ~HoldsLock(p)

\* C20: a process that gave up waiting for the lock ends with a non-zero
\* status, a run without failure ends with status 0, and a run in which
\* init() or run() raised an Exception is logged and ends with a non-zero
\* status.
C20_ExitStatus ==
    \A p \in Procs :
        Ended(p) =>
            /\ mpc[p] = "sysexit" => ExitStatus(p) # 0
            /\ (LeftWith(p) /\ thrown[p] = "none") => ExitStatus(p) = 0
            /\ (LeftWith(p) /\ thrown[p] = "Exception") =>
                  (errlog[p] /\ ExitStatus(p) # 0)

\* ---- the manifest and the failures of the Validate and Hash stages

\* The kinds of history entries of the Copy and Move stages
CopyMoveKinds == {"copied_dst", "copied_src", "move_copied", "confirm",
                  "listed_for_clear", "clear", "moved"}
NoCopyMoveYet == \A k \in DOMAIN events : events[k][1] \notin CopyMoveKinds
StagesEntered == { events[k][2] : k \in Idx("stage") }

\* One manifest line per element of zips, from the archive it names
RECURSIVE ManifestOf(_)
ManifestOf(zips) ==
    IF zips = << >> THEN ""
    ELSE NameStr(Last(Head(zips))) \o " (" \o config.hash \o "): "
         \o Digest(config.hash, fs[Head(zips)].data) \o "\n"
         \o ManifestOf(Tail(zips))

\* C14: once the manifest is written, and as long as the Copy and Move stages
\* have done nothing, hashes.txt in the destination directory is made of one
\* line '<archive name> (<algorithm>): <digest of the archive>' per archive
\* the zip loop produced, in the order in which it produced them.
C14_ManifestLines ==
    (Idx("manifest") # {} /\ NoCopyMoveYet) =>
        LET hashes_file == loc.dst_dir \o << hashes_name >>
        IN /\ IsFile(fs, hashes_file)
           /\ fs[hashes_file].data = ManifestOf(loc.zip_files)

\* C16: when hash_file has raised, on an archive or on the manifest, run()
\* has ended with that exception in the Hash stage: the Copy and Move stages
\* were not entered, nothing was copied, no confirmation was asked, nothing
\* was cleared, the source is as it was and nothing is under the copy root.
C16_HashFailureStops ==
    Idx("hash_file") # {} =>
        /\ rpc = "failed"
        /\ error = events[First("hash_file")][2]
        /\ StagesEntered = {"Validate", "Archive", "Hash"}
        /\ NoCopyMoveYet
        /\ ~loc.asked
        /\ SrcUnchanged
        /\ \A p \in DOMAIN fs : IsPrefix(CpyRoot, p) => p = CpyRoot

\* hash_file rejected the algorithm name on the first of two archives, in a
\* run that was to copy and to move
C16_Witness ==
    /\ Idx("hash_file") # {} /\ error = "ValueError"
    /\ config.cpy # None /\ config.mv
    /\ Len(loc.zip_files) = 2 /\ Idx("hashed") = {}
    /\ rpc = "failed"

\* C17: when check_paths has raised, run() has ended with that exception
\* and did nothing else: no prompt, no listing, no archive, no manifest, no
\* copy and no deletion; every entry that existed is unchanged and what
\* check_paths created before it raised are directories only.
C17_CheckFailureStops ==
    Idx("check_paths") # {} =>
        /\ rpc = "failed"
        /\ events = << << "stage", "Validate" >>,
                       << "check_paths", error >>, << "raise", error >> >>
        /\ loc = Locals0
        /\ \A p \in DOMAIN fs0 : p \in DOMAIN fs /\ fs[p] = fs0[p]
        /\ \A p \in DOMAIN fs \ DOMAIN fs0 : fs[p].kind = "dir"

\* src is a regular file: check_paths made dst and cpy and then raised
C17_Witness ==
    /\ Idx("check_paths") # {} /\ error = "NotADirectoryError"
    /\ rpc = "failed"
    /\ IsFile(fs0, SrcRoot)
    /\ ~Exists(fs0, DstRoot) /\ IsDir(fs, DstRoot)
    /\ config.sub_dir /\ config.mv

\* ---- check_paths

\* p was there before the call and was not a directory
NotADir0(p) == Exists(fs0, p) /\ ~IsDir(fs0, p)
\* p can be made with its parents: nothing on the way is a non-directory
Makeable0(p) == \A q \in Prefixes(p) : ~NotADir0(q)

\* C18: check_paths raises FileNotFoundError and creates nothing when src
\* does not exist; otherwise it makes dst and cpy with their parents where
\* they are missing, raises NotADirectoryError when src, dst or cpy is an
\* existing entry that is not a directory, and returns without changing
\* anything when src, dst and cpy (if given) are directories already.
C18_CheckPathsClassifies ==
    rpc = "returned" =>
        LET src == config.src
            dst == config.dst
            cpy == config.cpy
        IN /\ ~Exists(fs0, src) => (error = "FileNotFoundError" /\ fs = fs0)
           /\ (Exists(fs0, src) /\ Makeable0(dst)) => IsDir(fs, dst)
           /\ (Exists(fs0, src) /\ Makeable0(dst) /\ cpy # None /\ Makeable0(cpy))
                 => IsDir(fs, cpy)
           /\ (Exists(fs0, src)
               /\ (NotADir0(src) \/ NotADir0(dst) \/ (cpy # None /\ NotADir0(cpy))))
                 => error = "NotADirectoryError"
           /\ (IsDir(fs0, src) /\ IsDir(fs0, dst) /\ (cpy # None => IsDir(fs0, cpy)))
                 => (error = "" /\ fs = fs0)

\* ---- the fingerprint

\* The content of hashes.txt of run r, and the lines run r produced for it
Manifest(r) == fs[r][loc[r].hashes_file].data
Produced(r) == ManifestText(loc[r].hashes, config[r].hash)

\* The fingerprint run r logged is the digest of the whole content of the
\* manifest as written, and hashing the manifest again gives it
FingerprintOfManifest(r) ==
    rpc[r] = "logged" =>
        /\ IsFile(fs[r], loc[r].hashes_file)
        /\ loc[r].h = Digest(config[r].hash, Manifest(r))
        /\ hash_file(fs[r], loc[r].hashes_file, config[r].hash) = [hex |-> loc[r].h, err |-> ""]

\* C15 as stated: the logged fingerprint is the digest of the complete
\* manifest, re-hashing reproduces it, and two runs whose manifests have the
\* same lines in the same order log the same fingerprint.
C15_SameManifestSameFingerprint ==
    /\ \A r \in Runs : FingerprintOfManifest(r)
    /\ \A r1, r2 \in Runs :
          (rpc[r1] = "logged" /\ rpc[r2] = "logged" /\ Produced(r1) = Produced(r2))
             => loc[r1].h = loc[r2].h

\* C15 amended: the same, for two runs that use the same algorithm.
C15_SameAlgorithmSameFingerprint ==
    /\ \A r \in Runs : FingerprintOfManifest(r)
    /\ \A r1, r2 \in Runs :
          (rpc[r1] = "logged" /\ rpc[r2] = "logged" /\ Produced(r1) = Produced(r2)
           /\ config[r1].hash = config[r2].hash)
             => loc[r1].h = loc[r2].h

\* Two runs with the same algorithm have written the same two lines, one of
\* them over the hashes.txt of an earlier run, and have logged
C15_Witness ==
    /\ rpc[1] = "logged" /\ rpc[2] = "logged"
    /\ config[1].hash = config[2].hash
    /\ Len(loc[1].zip_files) = 2 /\ loc[1].zip_files = loc[2].zip_files
    /\ Produced(1) = Produced(2)
    /\ Exists(fs0[1], DstRoot \o << hashes_name >>)
    /\ ~Exists(fs0[2], DstRoot \o << hashes_name >>)

\* ------------------------------------------- zip_directory, called on its own

Av2_dir == SrcRoot \o << NameOf("A", ".v2") >>

\* no SingleInstance is in use
LockUnused ==
    /\ lockfile = [i \in Inst |-> Resolve("/w1", LockName)]
    /\ procOf = [i \in Inst |-> i]
    /\ openFds = [p \in Procs |-> {0, 1, 2}]
    /\ limit = WaitLimit(MAX_MINUTES_WAITING)
    /\ markers = {}
    /\ content = [q \in LockPaths |-> 0]

\* The arguments of the call: a subdirectory of the source, the destination,
\* no allow-list or the allow-list, and the flag
ZipArgs == [src_dir : {A_dir, B_dir, Av2_dir}, dst_dir : {DstRoot},
            allowed : {NoFilter, allowed_ext}, filter_empty : BOOLEAN]

InitZip ==
    /\ InitObjects
    /\ NoMain
    /\ LockUnused
    /\ config \in ZipArgs
    /\ listing \in NameOrders
    /\ \E s \in {SrcNested, SrcTwo, SrcDotted}, d \in {DstEmpty, DstUsed, DstStale} :
          fs = s @@ d
    /\ IsDir(fs, config.src_dir)
    /\ fs0 = fs
    /\ rpc = "call"
    /\ loc = [zip |-> None, n |-> 0]
    /\ error = ""
    /\ events = << >>

\* zip_directory(src_dir, dst_dir, allowed_ext, filter_empty) is called and
\* returns (dst_zip, len(files_to_zip)) or raises
CallZipDirectory ==
    /\ rpc = "call"
    /\ LET r == zip_directory(listing, fs, config.src_dir, config.dst_dir,
                              config.allowed, config.filter_empty)
       IN /\ fs' = r.fs
          /\ loc' = [zip |-> r.zip, n |-> r.n]
          /\ error' = r.err
    /\ rpc' = "returned"
    /\ UNCHANGED << lockVars, histVars, mainVars, config, listing, events, fs0 >>

NextZip == CallZipDirectory

SpecZip == InitZip /\ [][NextZip]_vars

\* C21: zip_directory writes its archive at dst_dir/'<name>.zip', <name>
\* being the whole name of src_dir (dots included) with '.zip' after it.
C21_ArchiveNamedAfterDirectory ==
    (rpc = "returned" /\ error = "" /\ loc.zip # None)
       => /\ loc.zip = config.dst_dir
                          \o << NameOf(NameStr(Last(config.src_dir)), ".zip") >>
          /\ IsFile(fs, loc.zip)

\* The files of the tree of d when run() started that the Archive stage is
\* to take: all of them, or with --fzip those whose lower-cased suffix is in
\* allowed_ext; and the same as os.walk meets them
ToArchive(d) ==
    { p \in Under(fs0, d) :
        ~IsDir(fs0, p) /\ (config.fil_zip => Lower(Last(p)[2]) \in allowed_ext) }
ToArchiveInOrder(d) ==
    SelectSeq(WalkFiles(listing, fs0, d), LAMBDA p : p \in ToArchive(d))

\* C22: when every subdirectory of the source has a qualifying file, the
\* Archive stage leaves one archive per subdirectory (as many distinct
\* archive files as subdirectories); the count returned for each is the
\* number of qualifying files of its tree, and the archive holds that many
\* entries, named relative to the subdirectory.
C22_OneArchivePerSubdirectory ==
    LET dirs == get_subdirectories(listing, fs0, config.src)
    IN (/\ Idx("archived") # {}
        /\ NoCopyMoveYet
        /\ \A k \in DOMAIN dirs : ToArchive(dirs[k]) # {})
       => /\ Len(loc.zip_files) = Len(dirs)
          /\ Cardinality({ loc.zip_files[k] : k \in DOMAIN loc.zip_files }) = Len(dirs)
          /\ \A k \in DOMAIN loc.zip_files :
                /\ loc.files_in_zip[k] = Cardinality(ToArchive(dirs[k]))
                /\ IsFile(fs, loc.zip_files[k])
                /\ fs[loc.zip_files[k]].data
                     = ZipBytes(fs0, ToArchiveInOrder(dirs[k]), dirs[k])

\* A call of the zip loop returns for a subdirectory d without a qualifying
\* file; the path '<name>.zip' of d; the names of the subdirectories that
\* have no qualifying file
ZipReturnsForEmpty ==
    /\ rpc = "zip" /\ loc.todo # << >> /\ loc'.todo = Tail(loc.todo)
    /\ ToArchive(Head(loc.todo)) = {}
ArchiveFor(d) == loc.dst_dir \o << NameOf(NameStr(Last(d)), ".zip") >>
NamesOfEmpty ==
    { NameStr(Last(ArchiveFor(d))) :
        d \in { p \in Children(fs0, config.src) : IsDir(fs0, p) /\ ToArchive(p) = {} } }

\* with filter_empty unset an archive without entries is written and
\* (path, 0) returned
EmptyArchiveWritten ==
    /\ Len(loc'.zip_files) = Len(loc.zip_files) + 1
    /\ LET dst_zip == loc'.zip_files[Len(loc'.zip_files)]
       IN /\ SubSeq(loc'.zip_files, 1, Len(loc.zip_files)) = loc.zip_files
          /\ IsFile(fs', dst_zip)
          /\ fs'[dst_zip].data = "PK[]"
          /\ fs' = Put(fs, dst_zip, fs'[dst_zip])
    /\ loc'.files_in_zip = Append(loc.files_in_zip, 0)

\* the manifest is written without a line for a pruned subdirectory
ManifestSkipsPruned ==
    (rpc = "hash" /\ rpc' = "final_hash" /\ config.fil_empty)
       => fs'[loc'.hashes_file].data
            = ManifestText(SelectSeq(loc.hashes, LAMBDA e : e[1] \notin NamesOfEmpty),
                           config.hash)

QualifyingFiles ==
    { p \in Under(fs0, config.src_dir) :
        /\ ~IsDir(fs0, p)
        /\ (config.allowed = {} \/ Lower(Last(p)[2]) \in config.allowed) }

\* C24: a file at any depth of the tree qualifies when there is no allow-list
\* (or an empty one) or when its suffix in lower case is in the allow-list;
\* the archive zip_directory writes holds the qualifying files and only
\* those, and their number is returned.
C24_ArchiveHoldsQualifyingFiles ==
    (rpc = "returned" /\ error = "") =>
        /\ loc.n = Cardinality(QualifyingFiles)
        /\ loc.zip = None => (QualifyingFiles = {} /\ config.filter_empty)
        /\ loc.zip # None =>
              /\ IsFile(fs, loc.zip)
              /\ fs[loc.zip].data
                   = ZipBytes(fs0,
                              SelectSeq(WalkFiles(listing, fs0, config.src_dir),
                                        LAMBDA p : p \in QualifyingFiles),
                              config.src_dir)

\* The archive of A was written under the allow-list: x.txt and n/z.TXT are
\* in it, y.bin and the link l are not
C24_Witness ==
    /\ rpc = "returned" /\ error = ""
    /\ config.src_dir = A_dir /\ config.allowed = allowed_ext
    /\ IsFile(fs0, A_dir \o << NameOf("n", ""), NameOf("z", ".TXT") >>)
    /\ IsFile(fs0, A_dir \o << NameOf("y", ".bin") >>)
    /\ loc.n = 2
    /\ loc.zip # None

\* ------------------------------------------- copy_filtered, called on its own

\* Destinations that already have content: an empty directory B; a copy of
\* A/x.txt made earlier
DstEmptyB ==
    (DstRoot :> DirNode) @@ ((DstRoot \o << NameOf("B", "") >>) :> DirNode)
DstOldA ==
    (DstRoot :> DirNode) @@ ((DstRoot \o << NameOf("A", "") >>) :> DirNode)
    @@ ((DstRoot \o << NameOf("A", ""), NameOf("x", ".txt") >>) :> FileNode("d11"))

\* The arguments of the call: the source, the destination and an allow-list
CopyArgs == [src : {SrcRoot}, dst : {DstRoot}, allowed : {allowed_ext, {".bin"}}]

InitCopyFiltered ==
    /\ InitObjects
    /\ NoMain
    /\ LockUnused
    /\ config \in CopyArgs
    /\ listing \in NameOrders
    /\ \E s \in {SrcNested, SrcTwo, SrcDotted, SrcTopFile, SrcEmpty},
          d \in {DstAbsent, DstEmpty, DstUsed, DstStale, DstEmptyB, DstOldA} :
          fs = s @@ d
    /\ fs0 = fs
    /\ rpc = "call"
    /\ loc = [has_valid_files |-> FALSE]
    /\ error = ""
    /\ events = << >>

\* copy_filtered(src, dst, allowed_ext) is called and returns has_valid_files
\* or raises
CallCopyFiltered ==
    /\ rpc = "call"
    /\ LET r == copy_filtered(listing, fs, config.src, config.dst, config.allowed)
       IN /\ fs' = r.fs
          /\ loc' = [has_valid_files |-> r.has]
          /\ error' = r.err
    /\ rpc' = "returned"
    /\ UNCHANGED << lockVars, histVars, mainVars, config, listing, events, fs0 >>

NextCopyFiltered == CallCopyFiltered

SpecCopyFiltered == InitCopyFiltered /\ [][NextCopyFiltered]_vars

\* The files of the source an allow-list lets through, and the directories
\* of the source with such a file somewhere below them
AllowedFiles ==
    { p \in Under(fs0, config.src) :
        IsFile(fs0, p) /\ Lower(Last(p)[2]) \in config.allowed }
DirsWithAllowed ==
    { d \in Under(fs0, config.src) :
        IsDir(fs0, d) /\ \E p \in AllowedFiles : IsPrefix(d, p) }
InDst(p) == Rebase(p, config.src, config.dst)

\* C25: after copy_filtered has returned, whatever the destination held
\* before, the destination has no directory at the place of a source
\* subdirectory without a qualifying file in its tree; the files with an
\* allowed suffix are copied and nothing else is; dst itself is a directory.
C25_CopyFilteredPrunes ==
    (rpc = "returned" /\ error = "") =>
        /\ IsDir(fs, config.dst)
        /\ \A d \in Under(fs0, config.src) :
              (IsDir(fs0, d) /\ d \notin DirsWithAllowed) => ~Exists(fs, InDst(d))
        /\ \A p \in AllowedFiles :
              IsFile(fs, InDst(p)) /\ fs[InDst(p)].data = fs0[p].data
        /\ \A q \in Under(fs, config.dst) :
              \/ q \in DOMAIN fs0 /\ fs[q] = fs0[q]
              \/ \E p \in AllowedFiles \cup DirsWithAllowed : q = InDst(p)
        /\ loc.has_valid_files = (AllowedFiles # {})
        /\ \A p \in DOMAIN fs0 : IsPrefix(config.src, p) => (p \in DOMAIN fs /\ fs[p] = fs0[p])

\* copy_filtered has returned on a destination that had content: the empty
\* directory B it held, at the place of a source directory without an
\* allowed file, is gone, and the allowed file of A has been copied
C25_Witness ==
    /\ rpc = "returned" /\ error = ""
    /\ IsDir(fs0, DstRoot \o << NameOf("B", "") >>)
    /\ IsDir(fs0, B_dir) /\ B_dir \notin DirsWithAllowed
    /\ ~Exists(fs, DstRoot \o << NameOf("B", "") >>)
    /\ AllowedFiles # {}

\* What a copy of the source tree is to take: everything, or with the filter
\* the files with an allowed suffix and the directories above them
Selected(filtered) ==
    IF ~filtered THEN Under(fs0, config.src)
    ELSE { p \in Under(fs0, config.src) :
             \/ IsFile(fs0, p) /\ Lower(Last(p)[2]) \in allowed_ext
             \/ IsDir(fs0, p) /\ \E q \in Under(fs0, p) :
                    IsFile(fs0, q) /\ Lower(Last(q)[2]) \in allowed_ext }

\* the selected part of the source is under `to`, with the same content
Arrived(filtered, to) ==
    \A p \in Selected(filtered) :
        LET q == Rebase(p, config.src, to)
        IN IF IsDir(fs0, p) THEN IsDir(fs, q)
           ELSE IsFile(fs, q) /\ fs[q].data = fs0[p].data

MoveKinds == {"move_copied", "confirm", "listed_for_clear", "clear", "moved"}
NoMoveYet == \A k \in DOMAIN events : events[k][1] \notin MoveKinds

\* C26: the Copy stage runs exactly when a copy root is configured, after
\* the fingerprint is logged and before any step of the Move stage; the copy
\* directory is cpy/<name> exactly when the destination directory is
\* dst/<name>; the whole destination directory is copied into it first, then
\* the source tree, through copy_filtered exactly when fil_cpy is set.
C26_CopyStage ==
    /\ \A k \in DOMAIN events :
          /\ events[k] = << "stage", "Copy" >>
                => config.cpy # None /\ events[k - 1][1] = "fingerprint"
          /\ (events[k][1] = "fingerprint" /\ config.cpy # None /\ k < Len(events))
                => events[k + 1] = << "stage", "Copy" >>
          /\ events[k][1] \in {"copied_dst", "copied_src"}
                => "Copy" \in { events[j][2] : j \in { i \in 1..k : events[i][1] = "stage" } }
          /\ events[k][1] = "copied_src" => events[k - 1][1] = "copied_dst"
          /\ (events[k][1] \in MoveKinds /\ config.cpy # None) => Before("copied_src", k)
    /\ config.cpy = None => \A p \in DOMAIN fs : ~IsPrefix(CpyRoot, p)
    /\ Idx("copied_dst") # {} =>
          /\ loc.cpy_dir = Rebase(loc.dst_dir, config.dst, config.cpy)
          /\ loc.dst_dir = config.dst \o loc.sub_dir
          /\ loc.cpy_dir = config.cpy \o loc.sub_dir
    /\ rpc = "copy_src" =>
          Under(fs, loc.cpy_dir)
            = { Rebase(p, loc.dst_dir, loc.cpy_dir) : p \in Under(fs, loc.dst_dir) }
          /\ \A p \in Under(fs, loc.dst_dir) :
                 fs[Rebase(p, loc.dst_dir, loc.cpy_dir)] = fs[p]
    /\ (Idx("copied_src") # {} /\ NoMoveYet) =>
          /\ Arrived(config.fil_cpy, loc.cpy_dir)
          /\ \A p \in Under(fs, loc.dst_dir) :
                LET q == Rebase(p, loc.dst_dir, loc.cpy_dir)
                IN \/ q \in DOMAIN fs /\ fs[q] = fs[p]
                   \/ \E s \in Selected(config.fil_cpy) :
                         q = Rebase(s, config.src, loc.cpy_dir)
          /\ \A q \in Under(fs, loc.cpy_dir) :
                \/ \E p \in Under(fs, loc.dst_dir) : q = Rebase(p, loc.dst_dir, loc.cpy_dir)
                \/ \E s \in Selected(config.fil_cpy) : q = Rebase(s, config.src, loc.cpy_dir)

\* A filtered copy into cpy/run1 is complete: the archive A.zip and the
\* manifest came from dst/run1, x.txt from the source, and y.bin was left out
C26_Witness ==
    /\ Idx("copied_src") # {} /\ NoMoveYet
    /\ config.fil_cpy /\ ~config.fil_mv /\ config.mv
    /\ loc.sub_dir # << >>
    /\ loc.cpy_dir = CpyRoot \o << NameOf("run1", "") >>
    /\ IsFile(fs, loc.cpy_dir \o << NameOf("A", ".zip") >>)
    /\ IsFile(fs, loc.cpy_dir \o << hashes_name >>)
    /\ IsFile(fs, loc.cpy_dir \o << NameOf("A", ""), NameOf("x", ".txt") >>)
    /\ IsFile(fs0, A_dir \o << NameOf("y", ".bin") >>)
    /\ ~Exists(fs, loc.cpy_dir \o << NameOf("A", ""), NameOf("y", ".bin") >>)

\* ----------------------------------------------- hash_file, called on its own

\* Names hashlib.new() does not know
UnknownNames == {"", "sha0"}

\* The arguments of the call: a path that is a file, a directory or nothing
\* in the file system of the call, and a name
HashArgs ==
    [file_path : { DstRoot \o << NameOf("B", ".zip") >>,
                   DstRoot \o << NameOf("A", ""), NameOf("x", ".txt") >>,
                   DstRoot \o << NameOf("A", "") >>,
                   DstRoot \o << hashes_name >> },
     algorithm : algorithms \cup UnknownNames]

InitHashFile ==
    /\ InitObjects
    /\ NoMain
    /\ LockUnused
    /\ config \in HashArgs
    /\ listing = << >>
    /\ fs \in {DstAbsent, DstEmpty, DstStale, DstOldA}
    /\ fs0 = fs
    /\ rpc = "call"
    /\ loc = [hex |-> ""]
    /\ error = ""
    /\ events = << >>

\* hash_file(file_path, algorithm) is called and returns the digest or raises
CallHashFile ==
    /\ rpc = "call"
    /\ LET r == hash_file(fs, config.file_path, config.algorithm)
       IN /\ loc' = [hex |-> r.hex]
          /\ error' = r.err
    /\ rpc' = "returned"
    /\ UNCHANGED << lockVars, histVars, mainVars, config, fs, listing, events, fs0 >>

NextHashFile == CallHashFile

SpecHashFile == InitHashFile /\ [][NextHashFile]_vars

\* C27: hash_file raises ValueError for a name that is not recognized (the
\* empty name included), also when the file is missing (the algorithm is
\* looked up first), and FileNotFoundError for a missing file when the name
\* is recognized.
C27_HashFileErrors ==
    rpc = "returned" =>
        /\ config.algorithm \in UnknownNames => error = "ValueError"
        /\ (config.algorithm \notin UnknownNames /\ ~Exists(fs, config.file_path))
              => error = "FileNotFoundError"

\* hash_file was called with the empty name on a path that does not exist
C27_Witness ==
    /\ rpc = "returned"
    /\ config.algorithm = ""
    /\ ~Exists(fs, config.file_path)
    /\ error = "ValueError"

\* ------------------------- run() while the source is changed from outside

\* While run() is blocked in input() at the confirmation prompt (line 180),
\* another program makes the directory B, with a file, in the source
EnvCreatesSubdir ==
    /\ rpc = "confirm"
    /\ IsDir(fs, config.src)
    /\ ~Exists(fs, B_dir)
    /\ fs' = Put(Put(fs, B_dir, DirNode),
                 B_dir \o << NameOf("y", ".bin") >>, FileNode("d12"))
    /\ UNCHANGED << lockVars, histVars, mainVars, config, listing, rpc, loc,
                    error, events, fs0 >>

NextRunEnv ==
    \/ RunCheckPaths
    \/ RunAskSubdir
    \/ RunListSubdirs
    \/ RunZipNext
    \/ RunZipDone
    \/ RunHashNext
    \/ RunWriteManifest
    \/ RunFingerprint
    \/ RunCopyDst
    \/ RunCopySrc
    \/ RunMoveCopy
    \/ RunConfirm
    \/ RunListForClear
    \/ RunClearNext
    \/ RunClearDone
    \/ RunComplete
    \/ EnvCreatesSubdir

SpecRunEnv == InitRun /\ [][NextRunEnv]_vars

\* C28: the subdirectories the Move stage has cleared are those the Archive
\* stage of the run enumerated, whatever happened to the listing of the
\* source between the two stages.
C28_ClearsWhatWasArchived ==
    Idx("moved") # {} =>
        { Args("clear")[k] : k \in DOMAIN Args("clear") }
          = { Args("zip_directory")[k] : k \in DOMAIN Args("zip_directory") }

\* The answers of the model that are 'Y' once in upper case
AcceptedAnswers == { << "y" >>, << "Y" >> }

\* C29: the confirmation is accepted exactly when the answer, in upper case
\* and untrimmed, is the single character 'Y': 'y' and 'Y' are accepted, '',
\* 'N', 'YES', ' Y' and 'Y ' (as every other answer) are rejected; a
\* rejected answer ends the run before anything of the source is deleted.
C29_ConfirmationExact ==
    loc.asked =>
        /\ loc.answer \in AcceptedAnswers
              <=> (\E k \in DOMAIN events : events[k] = << "confirm", "yes" >>)
        /\ loc.answer \in { << >>, << "N" >>, << "Y", "E", "S" >>, << " ", "Y" >>,
                            << "Y", " " >> }
              => rpc = "failed"
        /\ loc.answer \notin AcceptedAnswers =>
              /\ rpc = "failed" /\ error = "RuntimeError"
              /\ Idx("listed_for_clear") = {} /\ Idx("clear") = {}
              /\ SrcUnchanged

\* 'Y ' was answered after the source had been copied: the run has ended
\* with RuntimeError and the source is whole
C29_Witness ==
    /\ loc.asked /\ loc.answer = << "Y", " " >>
    /\ Idx("move_copied") # {}
    /\ rpc = "failed" /\ error = "RuntimeError"
    /\ IsFile(fs, A_dir \o << NameOf("x", ".txt") >>)

\* The names of the subdirectories the source had when run() started
SourceSubdirs == { NameStr(Last(d)) : d \in { p \in Children(fs0, config.src) : IsDir(fs0, p) } }

NoKeyTwice(d) == \A m, n \in DOMAIN d : d[m][1] = d[n][1] => m = n

\* C31: a run on a destination that holds the archives and the manifest of
\* an earlier run calls zip_directory on every subdirectory again and writes
\* hashes.txt anew: the archives it produced hold what it archived and
\* nothing older, and the manifest is made of one line per archive this run
\* produced, with the digest of that archive as it is now, and of nothing
\* else.
C31_RerunStartsAfresh ==
    (Idx("manifest") # {} /\ NoCopyMoveYet) =>
        LET dirs == get_subdirectories(listing, fs0, config.src)
        IN /\ Args("zip_directory") = [k \in DOMAIN dirs |-> NameStr(Last(dirs[k]))]
           /\ \A k \in DOMAIN loc.zip_files :
                 \E d \in { dirs[j] : j \in DOMAIN dirs } :
                    fs[loc.zip_files[k]].data
                      = ZipBytes(fs0, ToArchiveInOrder(d), d)
           /\ NoKeyTwice(loc.hashes)
           /\ { loc.hashes[n][1] : n \in DOMAIN loc.hashes }
                = { NameStr(Last(loc.zip_files[k])) : k \in DOMAIN loc.zip_files }
           /\ \A n \in DOMAIN loc.hashes :
                 \E k \in DOMAIN loc.zip_files :
                    /\ loc.hashes[n][1] = NameStr(Last(loc.zip_files[k]))
                    /\ loc.hashes[n][2] = Digest(config.hash, fs[loc.zip_files[k]].data)
           /\ fs[loc.dst_dir \o << hashes_name >>].data
                = ManifestText(loc.hashes, config.hash)

\* The second run has written its manifest, with the one line of A.zip,
\* over a manifest of two lines; B was pruned and its old archive is there
C31_Witness ==
    /\ Idx("manifest") # {} /\ NoCopyMoveYet
    /\ loc.dst_dir = DstRoot
    /\ IsFile(fs0, DstRoot \o << hashes_name >>)
    /\ fs0[DstRoot \o << NameOf("A", ".zip") >>].data
         # fs[DstRoot \o << NameOf("A", ".zip") >>].data
    /\ Len(loc.hashes) = 1
    /\ IsFile(fs, DstRoot \o << NameOf("B", ".zip") >>)

\* ------------------------------------------ hash_file, one read at a time

\* The size of a chunk (1024 * 1024 bytes in hash.py, line 28) and the
\* longest file, in bytes of the model
ChunkSize == 2
MaxFileLen == 4

\* The contents a file may have: the byte strings up to MaxFileLen
Contents == UNION { [1..n -> {"a", "b"}] : n \in 0..MaxFileLen }

\* bytes as the string Digest takes
RECURSIVE Str(_)
Str(bytes) == IF bytes = << >> THEN "" ELSE Head(bytes) \o Str(Tail(bytes))

\* f.read(n) at position pos of a regular file: the next n bytes, or those
\* that are left
ReadAt(bytes, pos, n) ==
    SubSeq(bytes, pos + 1, IF pos + n <= Len(bytes) THEN pos + n ELSE Len(bytes))

\* iter(lambda: f.read(1024 * 1024), b""): the loop ends at the chunk b""
LoopEndsOnShort(chunk) == Len(chunk) < ChunkSize
LoopEnds(chunk) == chunk = << >>

\* hasher = hashlib.new(algorithm) and the file is open at position 0
InitHashLoop ==
    /\ InitObjects
    /\ NoMain
    /\ LockUnused
    /\ config \in [content : Contents, algorithm : { a \in algorithms : FixedLength(a) }]
    /\ listing = << >>
    /\ fs = << >>
    /\ fs0 = << >>
    /\ rpc = "read"
    /\ loc = [pos |-> 0, chunk |-> << >>, fed |-> "", reads |-> 0, hex |-> ""]
    /\ error = ""
    /\ events = << >>

\* the next call of f.read by iter()
HashRead ==
    /\ rpc = "read"
    /\ LET chunk == ReadAt(config.content, loc.pos, ChunkSize)
       IN /\ loc' = [loc EXCEPT !.pos = @ + Len(chunk), !.chunk = chunk,
                                !.reads = @ + 1]
          /\ rpc' = IF LoopEnds(chunk) THEN "hexdigest" ELSE "update"
    /\ UNCHANGED << lockVars, histVars, mainVars, config, fs, listing, error,
                    events, fs0 >>

\* hasher.update(chunk)
HashUpdate ==
    /\ rpc = "update"
    /\ loc' = [loc EXCEPT !.fed = @ \o Str(loc.chunk)]
    /\ rpc' = "read"
    /\ UNCHANGED << lockVars, histVars, mainVars, config, fs, listing, error,
                    events, fs0 >>

\* return hasher.hexdigest(): the digest of all that was fed
HashHexdigest ==
    /\ rpc = "hexdigest"
    /\ loc' = [loc EXCEPT !.hex = Digest(config.algorithm, loc.fed)]
    /\ rpc' = "returned"
    /\ UNCHANGED << lockVars, histVars, mainVars, config, fs, listing, error,
                    events, fs0 >>

NextHashLoop ==
    \/ HashRead
    \/ HashUpdate
    \/ HashHexdigest

\* the loop is run by one thread that nothing stops: a step that can be
\* taken is taken
SpecHashLoop == InitHashLoop /\ [][NextHashLoop]_vars /\ WF_vars(NextHashLoop)

\* C32: whatever the content (empty, shorter than a chunk, a whole number of
\* chunks or not), hash_file returns, and what it returns is the digest of
\* the whole content under the algorithm; the loop has then read to the end
\* of the file and no further.
C32_ChunkingDoesNotMatter ==
    /\ [](rpc = "returned" =>
            /\ loc.hex = Digest(config.algorithm, Str(config.content))
            /\ loc.pos = Len(config.content)
            /\ loc.reads = (Len(config.content) + ChunkSize - 1) \div ChunkSize + 1)
    /\ <>(rpc = "returned")

\* A file of exactly two chunks was hashed in three reads
C32_Witness ==
    /\ rpc = "returned"
    /\ Len(config.content) = 2 * ChunkSize
    /\ loc.reads = 3
    /\ loc.hex = Digest(config.algorithm, Str(config.content))

\* C33: for every name of `algorithms`, the names --hash accepts, hash_file
\* returns a hex digest of an existing file.
C33_AcceptedAlgorithmsHash ==
    (rpc = "returned" /\ config.algorithm \in algorithms
     /\ IsFile(fs, config.file_path))
       => /\ error = ""
          /\ loc.hex = Digest(config.algorithm, fs[config.file_path].data)

\* The files that were in a subdirectory of the source when run() started
\* and are there no more
RemovedFiles ==
    { p \in DOMAIN fs0 :
        /\ Len(p) > Len(config.src) + 1 /\ IsPrefix(config.src, p)
        /\ ~IsDir(fs0, p)
        /\ p \notin DOMAIN fs }

\* C34: when the run is complete, every file the Move stage removed from a
\* subdirectory of the source is under the destination directory, at the
\* path it had under the source.
C34_RemovedFilesAreInDestination ==
    rpc = "done" =>
        \A p \in RemovedFiles : IsFile(fs, Rebase(p, config.src, loc.dst_dir))

\* The names of the subdirectories for which zip_directory returned an
\* archive, and of those for which it returned None
ArchivedNames ==
    { events[k][2] : k \in { j \in Idx("zip_directory") : events[j + 1][1] = "zip" } }
PrunedNames == { events[k][2] : k \in Idx("not_zipped") }
ClearedNames == { events[k][2] : k \in Idx("clear") }

\* C35 as stated: a subdirectory is cleared only if an archive was produced
\* for it and the manifest has a line for that archive; a subdirectory whose
\* archive was pruned keeps all it had.
C35_ClearsOnlyArchived ==
    /\ \A k \in Idx("clear") :
          /\ events[k][2] \in ArchivedNames
          /\ Idx("manifest") # {}
    /\ \A d \in Children(fs0, config.src) :
          (IsDir(fs0, d) /\ NameStr(Last(d)) \in PrunedNames)
             => \A p \in Under(fs0, d) : p \in DOMAIN fs /\ fs[p] = fs0[p]

\* C35 amended: when the Move stage is over, every subdirectory the source
\* has was cleared and is empty, whether an archive was produced for it or
\* it was pruned; nothing but subdirectories of the source was cleared.
C35_ClearsEverySubdirectory ==
    Idx("moved") # {} =>
        /\ \A d \in Children(fs, config.src) :
              IsDir(fs, d) => (NameStr(Last(d)) \in ClearedNames /\ Under(fs, d) = {})
        /\ ClearedNames
             = { NameStr(Last(d)) : d \in { p \in Children(fs, config.src) : IsDir(fs, p) } }
        /\ PrunedNames \subseteq ClearedNames

\* The move is over; B, which was pruned in the Archive stage, had a file
\* and has none now
C35_Witness ==
    /\ Idx("moved") # {}
    /\ "B" \in PrunedNames
    /\ IsFile(fs0, B_dir \o << NameOf("y", ".bin") >>)
    /\ IsDir(fs, B_dir) /\ Under(fs, B_dir) = {}

\* C36: the archive paths a run produces are all different: zip_directory
\* never writes where an earlier call of the same run has written, and
\* zip_files names no path twice.
C36_ArchivePathsDistinct ==
    \A j, k \in DOMAIN loc.zip_files :
        loc.zip_files[j] = loc.zip_files[k] => j = k

\* C37: when the run is complete, every archive the manifest names is in the
\* destination directory with the content whose digest the manifest
\* records, and hashes.txt has the content whose digest was logged as the
\* fingerprint.
C37_ArchivesAndManifestKept ==
    rpc = "done" =>
        /\ \A n \in DOMAIN loc.hashes :
              LET dst_zip == loc.dst_dir \o << CHOOSE z \in { Last(loc.zip_files[k]) :
                                                   k \in DOMAIN loc.zip_files } :
                                                 NameStr(z) = loc.hashes[n][1] >>
              IN /\ IsFile(fs, dst_zip)
                 /\ Digest(config.hash, fs[dst_zip].data) = loc.hashes[n][2]
        /\ IsFile(fs, loc.hashes_file)
        /\ Digest(config.hash, fs[loc.hashes_file].data) = loc.h

\* C38: when hash_file has raised on one of the archives of the run, the
\* entry hashes.txt of the destination directory is as it was before the
\* run, absent or with the content it had; and when the manifest has been
\* written, every archive the run produced has been hashed and has its line
\* in the file.
C38_ManifestAfterAllDigests ==
    LET hashes_file == loc.dst_dir \o << hashes_name >>
    IN /\ (Idx("hash_file") # {} /\ Idx("manifest") = {}) =>
             /\ (hashes_file \in DOMAIN fs) = (hashes_file \in DOMAIN fs0)
             /\ hashes_file \in DOMAIN fs => fs[hashes_file] = fs0[hashes_file]
       /\ Idx("manifest") # {} =>
             /\ loc.hashQ = << >>
             /\ \A k \in DOMAIN loc.zip_files :
                   \E n \in DOMAIN loc.hashes :
                       loc.hashes[n][1] = NameStr(Last(loc.zip_files[k]))
             /\ rpc = "final_hash" =>
                   /\ IsFile(fs, hashes_file)
                   /\ fs[hashes_file].data = ManifestText(loc.hashes, config.hash)

\* hash_file has raised on the first archive of a run into a directory that
\* held a manifest of an earlier run, and that manifest is as it was
C38_Witness ==
    /\ rpc = "failed" /\ Idx("hash_file") # {} /\ Idx("manifest") = {}
    /\ Len(loc.zip_files) >= 1
    /\ IsFile(fs0, loc.dst_dir \o << hashes_name >>)
    /\ fs[loc.dst_dir \o << hashes_name >>] = fs0[loc.dst_dir \o << hashes_name >>]

\* C39: while a process is blocked on a prompt of run() it holds the lock,
\* and no other process has acquired the lock or is in the body of main():
\* a process started meanwhile is still in acquire(), or has given up with
\* exit status 1.
C39_LockHeldThroughPrompts ==
    \A p \in Procs :
        mpc[p] = "input" =>
            /\ HoldsLock(p)
            /\ \A q \in Procs \ {p} :
                  /\ ~InBody(q)
                  /\ mpc[q] = "acquire" => ~held[q]
                  /\ mpc[q] = "sysexit" => ExitStatus(q) = 1

\* ------------------------------------- acquire() when the write of the pid fails

\* os.write(self.fd, ...) raises OSError (disk full, quota, I/O error): the
\* handler of acquire() catches FileExistsError only, so the exception leaves
\* acquire() and __enter__; the file created by os.open stays, empty, and
\* self.fd stays open
AcquireWriteFails(i) ==
    /\ pc[i] = "a_write"
    /\ pc' = [pc EXCEPT ![i] = "raised"]
    /\ UNCHANGED << lockfile, fd, loop_i, limit, procOf, openFds, markers,
                    content, histVars, mainVars, runVars >>

\* The process of a holder ends without release() (it is killed): its
\* descriptors are closed by the system, the marker file stays
Terminate(i) ==
    /\ pc[i] = "idle" /\ held[i]
    /\ pc' = [pc EXCEPT ![i] = "dead"]
    /\ openFds' = [openFds EXCEPT ![procOf[i]] = {}]
    /\ UNCHANGED << lockfile, fd, loop_i, limit, procOf, markers, content,
                    histVars, mainVars, runVars >>

\* `with SingleInstance(...)`: __enter__ calls acquire() once
EnterAcquire(i) == ~held[i] /\ CallAcquire(i)

\* the with-block is left: __exit__ calls release()
ExitRelease(i) == held[i] /\ CallRelease(i)

\* Instances in processes of their own on one lock path without a marker
InitAcquire ==
    /\ InitObjects
    /\ NoMain
    /\ NoRun
    /\ lockfile = [i \in Inst |-> Resolve("/w1", LockName)]
    /\ procOf = [i \in Inst |-> i]
    /\ openFds \in [Procs -> StdFdSets]
    /\ limit = MaxLimit
    /\ markers = {}
    /\ content = [q \in LockPaths |-> 0]

NextAcquire == \E i \in Inst :
    \/ EnterAcquire(i)
    \/ ExitRelease(i)
    \/ AcquireWriteFails(i)
    \/ Terminate(i)
    \/ LockStep(i)

SpecAcquire == InitAcquire /\ [][NextAcquire]_vars

\* Instance i is between the exclusive create and the write of acquire(),
\* or in the acquired state (its process running or not)
HasMarker(i) == pc[i] = "a_write" \/ (held[i] /\ pc[i] \in {"idle", "dead"})
                \/ InRelease(i)

\* C40: a marker file at the lock path belongs to an instance that is
\* creating it, holds it or is releasing it, or to a holder whose process
\* ended without release(); a call of acquire() that ended otherwise than by
\* returning (sys.exit(1), or an exception raised after the exclusive
\* create) has left no marker of its own; and while the marker of a dead
\* holder is there no other instance is in the acquired state.
C40_MarkerOnlyOfHolder ==
    /\ \A q \in markers :
          \E i \in Inst : lockfile[i] = q /\ HasMarker(i)
    /\ \A i \in Inst :
          pc[i] \in {"exited", "raised"} =>
              (lockfile[i] \in markers =>
                  \E j \in Inst \ {i} : lockfile[j] = lockfile[i] /\ HasMarker(j))
    /\ \A i \in Inst :
          pc[i] = "dead" =>
              /\ lockfile[i] \in markers
              /\ content[lockfile[i]] = procOf[i]
              /\ \A j \in Inst \ {i} : ~held[j] /\ pc[j] # "a_write"
====
